---- MODULE Spec2Model ----
(***************************************************************************)
(* Backup engine of the volume manager: the remote object store of one     *)
(* volume (objectstore.cfg, volume.cfg, SnapshotMaps, block blobs), the     *)
(* local snapshots the storage driver serves, and the engine's operations   *)
(* Register, AddVolume, BackupSnapshot, RestoreSnapshot and RemoveSnapshot. *)
(* Every operation is one action; a driver call that has an error return    *)
(* may fail, chosen by the input failAt (the index of the failing call      *)
(* inside the operation, 0 for none).  FileSize/FileExists have no error    *)
(* return and answer for the blob as stored.  getBlockstoreCfgAndDriver,    *)
(* which opens every operation on a volume, reads local files only: when it *)
(* fails the operation returns before any store call, which leaves the same *)
(* state as a failure of the first store call.                              *)
(***************************************************************************)
EXTENDS Integers, Sequences, FiniteSets, TLC

VARIABLES
    blobs,       \* block blobs of the volume: checksum -> bytes of the blob
    snapMaps,    \* SnapshotMap files of the volume: snapshot id -> SnapshotMap
    volCfg,      \* volume.cfg: <<>> when absent, <<Volume>> when present
    snapData,    \* the local snapshots of the storage driver: id -> (block index -> data)
    created,     \* number of snapshot ids handed out so far (ids are never reused)
    target,      \* bytes of the restore target device: block index -> data
    parentOf,    \* for each stored SnapshotMap, the parent its backup merged with
    lastCall,    \* the last engine call: its name, arguments, outcome and driver calls
    remoteCfg,   \* objectstore.cfg in the remote store: <<>> or <<BlockStore>>
    localCfg,    \* the client's local copies: uuid -> BlockStore
    minted,      \* number of UUIDs minted so far by uuid.New()
    volumes,     \* the driver's volume files: uuid -> Volume (with its Snapshots)
    deviceCfg,   \* the driver's config file: <<>> when missing, <<Device>> otherwise
    daemon,      \* d.Device in memory: <<>> when no driver is running
    thinDevs,    \* the thin devices of the pool: set of device ids
    dmDevs,      \* the active kernel devices: name -> device id
    issued,      \* the device ids a thin device was ever created with
    session,     \* per reader, the snapshot it opened and has not closed yet
    usedIds,     \* the volume and snapshot uuids handed to the driver so far
    drvCall,     \* the last driver call: its name, arguments and outcome
    lockPath,    \* the lock file of the root: <<>> when missing, <<inode>> otherwise
    lockFd,      \* per process, the inode its descriptor holds a flock on, or <<>>
    inodes,      \* number of lock files made so far
    running,     \* the daemons serving requests on the root
    GlobalLock,  \* the server's sync.RWMutex: its writer and its readers
    handlers,    \* per request goroutine, its handler and where it stands
    poolUp,      \* whether the thin-pool device is there
    imageCfg,    \* the image files: per activated image its size and VolumeRef
    loopDevs,    \* the imageCfg whose file is attached to a loopback device
    cfgFile,     \* the final file of a config: <<>> or its content
    tmpFile,     \* the temporary file next to it
    save,        \* the SaveConfig call in progress on that config
    cfgLoaded,      \* what LoadConfig returned since the last SaveConfig
    targetVol,   \* the driver's record of the restore target: <<>> or <<Volume>>
    mergeIn,     \* the arguments of a mergeSnapshotMap call: delta blocks and last map
    mergeOut,    \* what the call returned: <<>> before it, <<SnapshotMap>> after
    dmOrigin,    \* kernel devices with an external origin: name -> image
    srvVolumes,  \* the server's volume files: uuid -> Volume
    NameUUIDIndex, \* the server's index of names: name -> uuid
    UUIDIndex,   \* the server's index of uuids
    waitCall     \* the call of waitForServices in progress, or the last one

storeVars == <<blobs, snapMaps, volCfg, snapData, created, target, parentOf>>
regVars == <<remoteCfg, localCfg, minted>>
driverVars == <<volumes, deviceCfg, daemon, thinDevs, dmDevs, issued, session,
                usedIds, drvCall>>
\* the state outside the object store and the registration
lockVars == <<lockPath, lockFd, inodes, running>>
serverVars == <<GlobalLock, handlers>>
saveVars == <<cfgFile, tmpFile, save, cfgLoaded>>
poolVars == <<poolUp>>
imageVars == <<imageCfg, loopDevs>>
cmdVars == <<targetVol>>
mergeVars == <<mergeIn, mergeOut>>
originVars == <<dmOrigin>>
indexVars == <<srvVolumes, NameUUIDIndex, UUIDIndex>>
waitVars == <<waitCall>>
hostVars == <<driverVars, lockVars, serverVars, saveVars, poolVars, imageVars, cmdVars,
              mergeVars, originVars, indexVars, waitVars>>
vars == <<blobs, snapMaps, volCfg, snapData, created, target, parentOf,
          lastCall, remoteCfg, localCfg, minted, hostVars>>
\* the state of the backup engine
engineVars == <<storeVars, lastCall, regVars>>
\* what the storage driver leaves alone
exceptDriver == <<engineVars, lockVars, serverVars, saveVars, poolVars, imageVars, cmdVars,
    mergeVars, originVars, indexVars, waitVars>>
\* what the daemon start and stop leave alone
exceptLock == <<engineVars, driverVars, serverVars, saveVars, poolVars, imageVars, cmdVars,
    mergeVars, originVars, indexVars, waitVars>>
\* what the request handlers' locking leaves alone
exceptServer == <<engineVars, driverVars, lockVars, saveVars, poolVars, imageVars, cmdVars,
    mergeVars, originVars, indexVars, waitVars>>
\* what the steps of SaveConfig leave alone
exceptSave == <<engineVars, driverVars, lockVars, serverVars, poolVars, imageVars, cmdVars,
    mergeVars, originVars, indexVars, waitVars>>
\* what a stop and a start of the daemon leave alone, the driver aside
exceptPool == <<engineVars, lockVars, serverVars, saveVars, imageVars, cmdVars,
    mergeVars, originVars, indexVars, waitVars>>
\* what a driver call on images leaves alone, the driver aside
exceptImage == <<engineVars, lockVars, serverVars, saveVars, poolVars, cmdVars,
    mergeVars, originVars, indexVars, waitVars>>
\* what a change of the restore target leaves alone, its device aside
exceptCmd == <<driverVars, lockVars, serverVars, saveVars, poolVars, imageVars, mergeVars, originVars, indexVars, waitVars>>

----------------------------------------------------------------------------
(* Bounds *)

MaxBlocks == 2
MaxData == 1
MaxSnaps == 3
MaxUUID == 3
MaxVolumes == 2
MaxDrvSnaps == 2
MaxReaders == 2
MaxDaemons == 3
MaxInodes == 3
MaxHandlers == 3
MaxConfigs == 3
MaxMergeBlocks == 3

(* Program constants *)

DEFAULT_BLOCK_SIZE == 2097152
SECTOR_SIZE == 512
DEFAULT_THINPOOL_BLOCK_SIZE == 4096
BLOCK_SIZE_MIN == 128

BlockIdx == 0 .. (MaxBlocks - 1)
Data == 0 .. MaxData
ZeroBlock == CHOOSE d \in Data : \A e \in Data : d <= e   \* a block of zero bytes
SnapIds == {ToString(i) : i \in 1 .. MaxSnaps}
FewSnapIds == {ToString(i) : i \in 1 .. (MaxSnaps - 1)}
Kinds == {"vfs", "s3"}
VolumeSize == MaxBlocks * DEFAULT_BLOCK_SIZE

\* the driver's native block size in bytes, d.ThinpoolBlockSize*SECTOR_SIZE
DriverBlockSizes ==
    {DEFAULT_THINPOOL_BLOCK_SIZE * SECTOR_SIZE, BLOCK_SIZE_MIN * SECTOR_SIZE}

\* the contents a thin snapshot can have: a block is provisioned (in the
\* domain) or not; an unprovisioned block reads as zeros
Contents == UNION {[live -> Data] : live \in SUBSET BlockIdx}

\* the contents of a fully provisioned snapshot
FullContents == [BlockIdx -> Data]

----------------------------------------------------------------------------
(* Small helpers *)

Range(f) == {f[x] : x \in DOMAIN f}

EmptyFn == [x \in {} |-> x]

\* a function with one more (or replaced) key
Put(f, k, v) == [x \in (DOMAIN f) \cup {k} |-> IF x = k THEN v ELSE f[x]]

\* a function with one key removed
Drop(f, k) == [x \in (DOMAIN f) \ {k} |-> f[x]]

Min(S) == CHOOSE x \in S : \A y \in S : x <= y

\* all orders in which a set of ids can be enumerated
RECURSIVE Perms(_)
Perms(S) ==
    IF S = {} THEN {<<>>}
    ELSE UNION {{<<x>> \o p : p \in Perms(S \ {x})} : x \in S}

----------------------------------------------------------------------------
(* utils.GetChecksum: the first 64 hex characters of the SHA-512 of the     *)
(* block.  Distinct blocks are taken to have distinct checksums; the        *)
(* checksum is a name for the block, not the block.                         *)

GetChecksum(block) == [sha512 |-> block]

BlockMapping(offset, checksum) == [Offset |-> offset, BlockChecksum |-> checksum]

OffsetsOf(blocks) == {blocks[i].Offset : i \in DOMAIN blocks}
ChecksumsOf(blocks) == {blocks[i].BlockChecksum : i \in DOMAIN blocks}

----------------------------------------------------------------------------
(* The record an operation threads through its driver calls: the store as   *)
(* written so far, the count n of fallible calls made, err once one failed, *)
(* the calls that took effect (trace) and the blobs written (written).      *)

Ctx(b, m, v) ==
    [blobs |-> b, snapMaps |-> m, volCfg |-> v, n |-> 0, err |-> FALSE,
     trace |-> <<>>, written |-> <<>>]

\* the next fallible call: it fails when it is call number failAt
Fails(st, failAt) == st.n + 1 = failAt

Failed(st) == [st EXCEPT !.n = @ + 1, !.err = TRUE]

Did(st, call) == [st EXCEPT !.n = @ + 1, !.trace = Append(@, call)]

Pass(st) == [st EXCEPT !.n = @ + 1]

\* a fallible call with no effect on the model's state
Try(st, failAt) == IF Fails(st, failAt) THEN Failed(st) ELSE Pass(st)

Error(st) == [st EXCEPT !.err = TRUE]

LogDropped(st, call) == st

\* a call whose error return is not looked at
Log(st, call) == [st EXCEPT !.trace = Append(@, call)]

----------------------------------------------------------------------------
(* Local config files (package utils) *)

\* what SaveConfig returns and leaves at the final path, from its context
\* after os.Create, Write, os.Remove and os.Rename
SaveConfigReturn(cr, wr, rm, rn, old, v) ==
    IF cr.err THEN [st |-> cr, file |-> old]
    ELSE IF wr.err THEN [st |-> wr, file |-> old]
    ELSE IF rm.err THEN [st |-> rm, file |-> old]
    ELSE IF rn.err THEN [st |-> rn, file |-> <<>>]
    ELSE [st |-> rn, file |-> <<v>>]

\* SaveConfig over the file old (<<>> when missing), run to its return:
\* os.Create of name.tmp, Write, os.Remove of the old file when there is
\* one, os.Rename of the temp file; file is what the final path then holds
SaveConfig(st, old, v, failAt) ==
    LET cr == Try(st, failAt)
        wr == Try(cr, failAt)
        rm == IF old = <<>> THEN wr ELSE Try(wr, failAt)
        rn == Try(rm, failAt)
    IN  SaveConfigReturn(cr, wr, rm, rn, old, v)

----------------------------------------------------------------------------
(* Configs in the object store (objectstore/config.go) *)

\* loadConfigInObjectStore: FileSize < 0 is an error; driver.Read may fail
loadConfigInObjectStore(st, present, failAt) ==
    IF ~present THEN Error(st)
    ELSE IF Fails(st, failAt) THEN Failed(st)
    ELSE Pass(st)

loadVolumeConfig(st, failAt) == loadConfigInObjectStore(st, st.volCfg # <<>>, failAt)

saveVolumeConfig(st, v, failAt) ==
    IF Fails(st, failAt) THEN Failed(st)
    ELSE Did([st EXCEPT !.volCfg = <<v>>], "saveVolume")

snapshotExistsNever(st, snapshotID) == FALSE

\* snapshotExists: FileExists of the SnapshotMap file
snapshotExists(st, snapshotID) == snapshotID \in DOMAIN st.snapMaps

loadSnapshotMap(st, snapshotID, failAt) ==
    loadConfigInObjectStore(st, snapshotID \in DOMAIN st.snapMaps, failAt)

\* saveSnapshotMap: an existing file is removed first, then the map is written
saveSnapshotMap(st, snapshotID, snapshotMap, failAt) ==
    LET rm == IF snapshotExists(st, snapshotID)
              THEN IF Fails(st, failAt) THEN Failed(st)
                   ELSE Did([st EXCEPT !.snapMaps = Drop(@, snapshotID)], "removeMap")
              ELSE st
    IN  IF rm.err THEN rm
        ELSE IF Fails(rm, failAt) THEN Failed(rm)
        ELSE Did([rm EXCEPT !.snapMaps = Put(@, snapshotID, snapshotMap)], "saveMap")

\* getSnapshots: the ids of the SnapshotMap files listed under snapshots/;
\* when driver.List fails the result is empty and no error is returned
getSnapshots(st, failAt) ==
    IF Fails(st, failAt) THEN [st |-> Pass(st), ids |-> {}]
    ELSE [st |-> Pass(st), ids |-> DOMAIN st.snapMaps]

\* removeAndCleanup of a block file: the blob is removed
removeAndCleanup(st, checksum, failAt) ==
    IF Fails(st, failAt) THEN Failed(st)
    ELSE Did([st EXCEPT !.blobs = Drop(@, checksum)], "removeBlock")

----------------------------------------------------------------------------
(* The local storage driver (devmapper) as the engine uses it *)

HasSnapshot(id) == id \in DOMAIN snapData

\* maximal runs of consecutive block indexes, ascending
RECURSIVE Runs(_)
Runs(S) ==
    IF S = {} THEN <<>>
    ELSE LET b == Min(S)
             len == CHOOSE k \in 1 .. Cardinality(S) :
                        /\ \A j \in 0 .. (k - 1) : (b + j) \in S
                        /\ (b + k) \notin S
         IN  <<[Begin |-> b, Length |-> len]>> \o Runs(S \ (b .. (b + len - 1)))

\* the blocks of snapshot id that CompareSnapshot reports against compareID:
\* every provisioned block when there is nothing to compare with, else the
\* provisioned blocks that differ, and those rewritten with the same bytes
DeltaBlocks(id, compareID, rewritten) ==
    LET new == snapData[id]
        old == snapData[compareID]
    IN  IF compareID = "" \/ compareID = id THEN DOMAIN new
        ELSE {i \in DOMAIN new : i \notin DOMAIN old \/ old[i] # new[i]}
               \cup (rewritten \cap {i \in DOMAIN new \cap DOMAIN old : old[i] = new[i]})

\* Driver.CompareSnapshot: both snapshots must exist; the result carries the
\* driver's block size and the (offset, length) ranges in bytes
CompareSnapshot(id, compareID, blockSize, rewritten) ==
    LET other == IF compareID = "" \/ compareID = id THEN id ELSE compareID
    IN  IF ~HasSnapshot(id) \/ ~HasSnapshot(other)
        THEN [err |-> TRUE, BlockSize |-> blockSize, Mappings |-> <<>>]
        ELSE LET runs == Runs(DeltaBlocks(id, compareID, rewritten))
             IN  [err |-> FALSE, BlockSize |-> blockSize,
                  Mappings |-> [k \in DOMAIN runs |->
                                  [Offset |-> blockSize * runs[k].Begin,
                                   Size |-> blockSize * runs[k].Length]]]

\* Driver.ReadSnapshot: the block of the snapshot at a byte offset
ReadSnapshot(snapshotID, offset, blockSize) ==
    LET content == snapData[snapshotID]
        idx == offset \div blockSize
    IN  IF idx \in DOMAIN content THEN content[idx] ELSE ZeroBlock

----------------------------------------------------------------------------
(* BackupSnapshot (blockstore.go) *)

\* the offsets the two nested loops of BackupSnapshot visit, in order
RECURSIVE WalkOffsets(_, _)
WalkOffsets(mappings, blockSize) ==
    IF mappings = <<>> THEN <<>>
    ELSE LET d == Head(mappings)
             cnt == d.Size \div blockSize
         IN  [i \in 1 .. cnt |-> d.Offset + (i - 1) * blockSize]
               \o WalkOffsets(Tail(mappings), blockSize)

BlockExistsNever(st, checksum) == FALSE

\* bsDriver.FileSize(blkFile) >= 0: the blob of this checksum is in the store
BlockExists(st, checksum) == checksum \in DOMAIN st.blobs

\* one pass of the inner loop body per offset: read, checksum, skip the
\* write when the blob exists, else MkDirAll and Write, then record
RECURSIVE WalkBlocks(_, _, _, _, _, _)
WalkBlocks(st, recorded, offsets, snapshotID, blockSize, failAt) ==
    IF st.err \/ offsets = <<>> THEN [st |-> st, Blocks |-> recorded]
    ELSE LET offset == Head(offsets)
             block == ReadSnapshot(snapshotID, offset, blockSize)
             checksum == GetChecksum(block)
             rd == IF Fails(st, failAt) THEN Failed(st) ELSE Did(st, "read")
             mk == IF Fails(rd, failAt) THEN Failed(rd) ELSE Pass(rd)
             wr == IF Fails(mk, failAt) THEN Failed(mk)
                   ELSE [Did(mk, "write") EXCEPT
                            !.blobs = Put(@, checksum, block),
                            !.written = Append(@, checksum)]
             more == Append(recorded, BlockMapping(offset, checksum))
         IN  IF rd.err THEN [st |-> rd, Blocks |-> recorded]
             ELSE IF BlockExists(rd, checksum)
             THEN WalkBlocks(rd, more, Tail(offsets), snapshotID, blockSize, failAt)
             ELSE IF mk.err THEN [st |-> mk, Blocks |-> recorded]
             ELSE IF wr.err THEN [st |-> wr, Blocks |-> recorded]
             ELSE WalkBlocks(wr, more, Tail(offsets), snapshotID, blockSize, failAt)

\* mergeSnapshotMap: the two-pointer merge of the delta with the last map
RECURSIVE MergeBlocks(_, _)
MergeBlocks(dBlocks, lBlocks) ==
    IF dBlocks = <<>> THEN lBlocks
    ELSE IF lBlocks = <<>> THEN dBlocks
    ELSE LET dB == Head(dBlocks)
             lB == Head(lBlocks)
         IN  IF dB.Offset = lB.Offset
             THEN <<dB>> \o MergeBlocks(Tail(dBlocks), Tail(lBlocks))
             ELSE IF dB.Offset < lB.Offset
             THEN <<dB>> \o MergeBlocks(Tail(dBlocks), lBlocks)
             ELSE <<lB>> \o MergeBlocks(dBlocks, Tail(lBlocks))

mergeSnapshotMapAppended(snapshotID, deltaBlocks, lastMap) ==
    IF lastMap = <<>> THEN [ID |-> snapshotID, Blocks |-> deltaBlocks]
    ELSE [ID |-> snapshotID, Blocks |-> deltaBlocks \o lastMap[1].Blocks]

\* the merge with its two lists exchanged: the last map wins an offset
mergeSnapshotMapLastFirst(snapshotID, deltaBlocks, lastMap) ==
    IF lastMap = <<>> THEN [ID |-> snapshotID, Blocks |-> deltaBlocks]
    ELSE [ID |-> snapshotID, Blocks |-> MergeBlocks(lastMap[1].Blocks, deltaBlocks)]

\* lastMap is <<>> for nil, <<SnapshotMap>> otherwise
mergeSnapshotMap(snapshotID, deltaBlocks, lastMap) ==
    IF lastMap = <<>> THEN [ID |-> snapshotID, Blocks |-> deltaBlocks]
    ELSE [ID |-> snapshotID, Blocks |-> MergeBlocks(deltaBlocks, lastMap[1].Blocks)]

\* the parent chosen without asking the driver for the snapshot
BackupParentAnyLast(volume, snapshotID) ==
    LET lastSnapshotID == volume.LastSnapshotID
    IN  IF lastSnapshotID = "" THEN ""
        ELSE IF lastSnapshotID = snapshotID THEN ""
        ELSE lastSnapshotID

\* the parent BackupSnapshot settles on: "" for a full backup
BackupParent(volume, snapshotID) ==
    LET lastSnapshotID == volume.LastSnapshotID
    IN  IF lastSnapshotID = "" THEN ""
        ELSE IF lastSnapshotID = snapshotID THEN ""
        ELSE IF ~HasSnapshot(lastSnapshotID) THEN ""
        ELSE lastSnapshotID

\* the same steps with volume.cfg saved before the SnapshotMap
BackupOpenedConfigFirst(st0, volume, snapshotID, lastMap, delta, blockSize, failAt) ==
    LET walk == WalkBlocks(st0, <<>>, WalkOffsets(delta.Mappings, delta.BlockSize),
                           snapshotID, blockSize, failAt)
        snapshotMap == mergeSnapshotMap(snapshotID, walk.Blocks, lastMap)
        newVolume == [volume EXCEPT !.LastSnapshotID = snapshotID]
        done == saveVolumeConfig(walk.st, newVolume, failAt)
        saved == saveSnapshotMap(done, snapshotID, snapshotMap, failAt)
    IN  IF walk.st.err THEN walk.st
        ELSE IF done.err THEN done
        ELSE saved

\* from OpenSnapshot to the return; CloseSnapshot is deferred
BackupOpened(st0, volume, snapshotID, lastMap, delta, blockSize, failAt) ==
    LET walk == WalkBlocks(st0, <<>>, WalkOffsets(delta.Mappings, delta.BlockSize),
                           snapshotID, blockSize, failAt)
        snapshotMap == mergeSnapshotMap(snapshotID, walk.Blocks, lastMap)
        saved == saveSnapshotMap(walk.st, snapshotID, snapshotMap, failAt)
        newVolume == [volume EXCEPT !.LastSnapshotID = snapshotID]
        done == saveVolumeConfig(saved, newVolume, failAt)
    IN  IF walk.st.err THEN walk.st
        ELSE IF saved.err THEN saved
        ELSE done

SameBlockSizeUnchecked(delta, blockSize) == TRUE

\* the store and the driver must use one block size
SameBlockSize(delta, blockSize) == delta.BlockSize = blockSize

BackupSnapshot(st0, snapshotID, driverBlockSize, rewritten, failAt) ==
    LET blockSize == DEFAULT_BLOCK_SIZE
        ld == loadVolumeConfig(st0, failAt)
    IN  IF ld.err THEN ld
        ELSE IF snapshotExists(ld, snapshotID) THEN Error(ld)
        ELSE
        LET volume == ld.volCfg[1]
            lastSnapshotID == BackupParent(volume, snapshotID)
            ll == IF lastSnapshotID = "" THEN ld
                  ELSE Log(loadSnapshotMap(ld, lastSnapshotID, failAt), "loadLast")
            lastMap == IF lastSnapshotID = "" \/ ll.err THEN <<>>
                       ELSE <<ll.snapMaps[lastSnapshotID]>>
            delta == CompareSnapshot(snapshotID, lastSnapshotID, driverBlockSize, rewritten)
            cmp == IF delta.err THEN Error(ll)
                   ELSE IF Fails(ll, failAt) THEN Failed(ll) ELSE Did(ll, "compare")
            opn == IF Fails(cmp, failAt) THEN Failed(cmp) ELSE Did(cmp, "open")
        IN  IF ll.err THEN ll
            ELSE IF cmp.err THEN cmp
            ELSE IF ~SameBlockSize(delta, blockSize) THEN Error(cmp)
            ELSE IF opn.err THEN opn
            ELSE Log(BackupOpened(opn, volume, snapshotID, lastMap, delta,
                                  blockSize, failAt), "close")

----------------------------------------------------------------------------
(* RemoveSnapshot and its garbage collection (blockstore.go) *)

\* the inner loop over one surviving map: a referenced checksum leaves the
\* discard set; the loop stops when the set is empty (discardBlockCounts = 0)
RECURSIVE ScanBlocks(_, _)
ScanBlocks(discardBlockSet, blocks) ==
    IF blocks = <<>> THEN discardBlockSet
    ELSE LET blk == Head(blocks)
         IN  IF blk.BlockChecksum \in discardBlockSet
             THEN LET rest == discardBlockSet \ {blk.BlockChecksum}
                  IN  IF rest = {} THEN rest ELSE ScanBlocks(rest, Tail(blocks))
             ELSE ScanBlocks(discardBlockSet, Tail(blocks))

\* the outer loop over the surviving snapshots, in the order the map
\* iteration yields them; a map that cannot be cfgLoaded ends the call
RECURSIVE ScanSnapshots(_, _, _, _)
ScanSnapshots(st, discardBlockSet, ids, failAt) ==
    IF ids = <<>> THEN [st |-> st, discard |-> discardBlockSet]
    ELSE LET ld == loadSnapshotMap(st, Head(ids), failAt)
             rest == ScanBlocks(discardBlockSet, ld.snapMaps[Head(ids)].Blocks)
         IN  IF ld.err THEN [st |-> ld, discard |-> discardBlockSet]
             ELSE IF rest = {} THEN [st |-> ld, discard |-> rest]
             ELSE ScanSnapshots(ld, rest, Tail(ids), failAt)

\* the final loop: the blobs left in the discard set are removed one by one
RECURSIVE RemoveBlocks(_, _, _)
RemoveBlocks(st, checksums, failAt) ==
    IF st.err \/ checksums = <<>> THEN st
    ELSE RemoveBlocks(removeAndCleanup(st, Head(checksums), failAt),
                      Tail(checksums), failAt)

\* the elements of a sequence that lie in a set, in the sequence's order
RECURSIVE Only(_, _)
Only(seq, S) ==
    IF seq = <<>> THEN <<>>
    ELSE IF Head(seq) \in S THEN <<Head(seq)>> \o Only(Tail(seq), S)
    ELSE Only(Tail(seq), S)

CollectGarbageScanOnly(st, discardBlockSet, scanOrder, removeOrder, failAt) ==
    LET snapshots == getSnapshots(st, failAt)
    IN  ScanSnapshots(snapshots.st, discardBlockSet,
                      Only(scanOrder, snapshots.ids), failAt).st

\* after the SnapshotMap file is gone and volume.cfg is settled
CollectGarbage(st, discardBlockSet, scanOrder, removeOrder, failAt) ==
    LET snapshots == getSnapshots(st, failAt)
        scan == ScanSnapshots(snapshots.st, discardBlockSet,
                              Only(scanOrder, snapshots.ids), failAt)
    IN  IF scan.st.err THEN scan.st
        ELSE RemoveBlocks(scan.st, Only(removeOrder, scan.discard), failAt)

RemoveSnapshotKeepLast(st0, snapshotID, scanOrder, removeOrder, failAt) ==
    LET ld == loadVolumeConfig(st0, failAt)
        lm == loadSnapshotMap(ld, snapshotID, failAt)
    IN  IF ld.err THEN ld
        ELSE IF lm.err THEN lm
        ELSE
        LET rm == IF Fails(lm, failAt) THEN Failed(lm)
                  ELSE Did([lm EXCEPT !.snapMaps = Drop(@, snapshotID)], "removeMap")
        IN  IF rm.err THEN rm
            ELSE CollectGarbage(rm, ChecksumsOf(lm.snapMaps[snapshotID].Blocks),
                                scanOrder, removeOrder, failAt)

\* scanOrder and removeOrder are the orders the two Go map iterations take
RemoveSnapshot(st0, snapshotID, scanOrder, removeOrder, failAt) ==
    LET ld == loadVolumeConfig(st0, failAt)
        lm == loadSnapshotMap(ld, snapshotID, failAt)
    IN  IF ld.err THEN ld
        ELSE IF lm.err THEN lm
        ELSE
        LET v == lm.volCfg[1]
            discardBlockSet == ChecksumsOf(lm.snapMaps[snapshotID].Blocks)
            rm == IF Fails(lm, failAt) THEN Failed(lm)
                  ELSE Did([lm EXCEPT !.snapMaps = Drop(@, snapshotID)], "removeMap")
            sv == IF snapshotID = v.LastSnapshotID
                  THEN saveVolumeConfig(rm, [v EXCEPT !.LastSnapshotID = ""], failAt)
                  ELSE rm
        IN  IF rm.err THEN rm
            ELSE IF sv.err THEN sv
            ELSE CollectGarbage(sv, discardBlockSet, scanOrder, removeOrder, failAt)

----------------------------------------------------------------------------
(* RestoreSnapshot (blockstore.go): every block of the map is read from its *)
(* blob and written to the target device at its offset                      *)

RECURSIVE RestoreBlocks(_, _, _, _, _)
RestoreBlocks(st, dev, blocks, blockSize, failAt) ==
    IF blocks = <<>> THEN [st |-> st, target |-> dev]
    ELSE LET block == Head(blocks)
             rd == IF block.BlockChecksum \notin DOMAIN st.blobs THEN Error(st)
                   ELSE IF Fails(st, failAt) THEN Failed(st) ELSE Pass(st)
             data == rd.blobs[block.BlockChecksum]
             wr == IF Fails(rd, failAt) THEN Failed(rd) ELSE Did(rd, "writeAt")
         IN  IF rd.err THEN [st |-> rd, target |-> dev]
             ELSE IF wr.err THEN [st |-> wr, target |-> dev]
             ELSE RestoreBlocks(wr, [dev EXCEPT ![block.Offset \div blockSize] = data],
                                Tail(blocks), blockSize, failAt)

RestoreSnapshotSkipFirst(st0, dev, srcSnapshotID, failAt) ==
    LET lm == loadSnapshotMap(Pass(Pass(loadVolumeConfig(st0, failAt))),
                              srcSnapshotID, failAt)
    IN  IF lm.err THEN [st |-> lm, target |-> dev]
        ELSE LET blocks == lm.snapMaps[srcSnapshotID].Blocks
             IN  RestoreBlocks(lm, dev, SubSeq(blocks, 2, Len(blocks)),
                               DEFAULT_BLOCK_SIZE, failAt)

RestoreSnapshot(st0, dev, srcSnapshotID, failAt) ==
    LET blockSize == DEFAULT_BLOCK_SIZE
        ld == loadVolumeConfig(st0, failAt)
        gd == IF Fails(ld, failAt) THEN Failed(ld) ELSE Pass(ld)
        cr == IF Fails(gd, failAt) THEN Failed(gd) ELSE Pass(gd)
        lm == loadSnapshotMap(cr, srcSnapshotID, failAt)
    IN  IF ld.err THEN [st |-> ld, target |-> dev]
        ELSE IF gd.err THEN [st |-> gd, target |-> dev]
        ELSE IF cr.err THEN [st |-> cr, target |-> dev]
        ELSE IF lm.err THEN [st |-> lm, target |-> dev]
        ELSE RestoreBlocks(lm, dev, lm.snapMaps[srcSnapshotID].Blocks, blockSize, failAt)

\* the restore command without its comparison of the two volumes
doSnapshotRestoreAnyTarget(st0, dev, originVol, dstVol, snapshotUUID, failAt) ==
    IF originVol = <<>> THEN [st |-> Error(st0), target |-> dev]
    ELSE IF snapshotUUID \notin originVol[1].Snapshots
    THEN [st |-> Error(st0), target |-> dev]
    ELSE IF dstVol = <<>> THEN [st |-> Error(st0), target |-> dev]
    ELSE RestoreSnapshot(st0, dev, snapshotUUID, failAt)

\* the restore command (commands.go:217-236): both volumes are loaded and
\* compared before the engine is called
doSnapshotRestore(st0, dev, originVol, dstVol, snapshotUUID, failAt) ==
    IF originVol = <<>> THEN [st |-> Error(st0), target |-> dev]
    ELSE IF snapshotUUID \notin originVol[1].Snapshots
    THEN [st |-> Error(st0), target |-> dev]
    ELSE IF dstVol = <<>> THEN [st |-> Error(st0), target |-> dev]
    ELSE IF originVol[1].Size # dstVol[1].Size \/ originVol[1].Base # dstVol[1].Base
    THEN [st |-> Error(st0), target |-> dev]
    ELSE RestoreSnapshot(st0, dev, snapshotUUID, failAt)

----------------------------------------------------------------------------
(* AddVolume (blockstore.go): volume.cfg is written when absent, after the  *)
(* three MkDirAll calls                                                     *)

AddVolumeOverwrite(st0, base, size, failAt) ==
    saveVolumeConfig(Try(Try(Try(st0, failAt), failAt), failAt),
                     [Size |-> size, Base |-> base, LastSnapshotID |-> ""], failAt)

AddVolume(st0, base, size, failAt) ==
    LET d1 == IF Fails(st0, failAt) THEN Failed(st0) ELSE Pass(st0)
        d2 == IF Fails(d1, failAt) THEN Failed(d1) ELSE Pass(d1)
        d3 == IF Fails(d2, failAt) THEN Failed(d2) ELSE Pass(d2)
        volume == [Size |-> size, Base |-> base, LastSnapshotID |-> ""]
    IN  IF st0.volCfg # <<>> THEN Error(st0)
        ELSE IF d1.err THEN d1
        ELSE IF d2.err THEN d2
        ELSE IF d3.err THEN d3
        ELSE saveVolumeConfig(d3, volume, failAt)

----------------------------------------------------------------------------
(* The thin-pool storage driver (devmapper/devmapper.go).  Its persistent    *)
(* state is one file per volume and the driver config that holds LastDevID;  *)
(* the pool's thin devices and the active kernel devices live in the kernel  *)
(* and outlast the daemon.  The calls into the device-mapper library follow  *)
(* the kernel: a thin device id or a device name that exists cannot be       *)
(* created again, a thin device that is active cannot be deleted, and every  *)
(* call may fail for reasons of its own (failAt).  Volumes are created       *)
(* without a base image.                                                     *)

VolumeIds == {"v" \o ToString(i) : i \in 1 .. MaxVolumes}
SnapshotIds == {"s" \o ToString(i) : i \in 1 .. MaxDrvSnaps}
FewVolumeIds == {"v" \o ToString(i) : i \in 1 .. (MaxVolumes - 1)}
FewSnapshotIds == {"s" \o ToString(i) : i \in 1 .. (MaxDrvSnaps - 1)}
Readers == 1 .. MaxReaders

\* a size the pool accepts and one it rejects
DriverSizes == {2 * DEFAULT_THINPOOL_BLOCK_SIZE * SECTOR_SIZE, SECTOR_SIZE}

Device(lastDevID) == [LastDevID |-> lastDevID]

Snapshot(devID, activated) == [DevID |-> devID, Activated |-> activated]

DrvCtx(vols, cfg, lastDevID, thin, dm) ==
    [volumes |-> vols, cfg |-> cfg, LastDevID |-> lastDevID, thin |-> thin,
     dm |-> dm, n |-> 0, err |-> FALSE, trace |-> <<>>, devID |-> 0]

\* <<>> for nil
loadVolume(st, uuid) ==
    IF uuid \in DOMAIN st.volumes THEN <<st.volumes[uuid]>> ELSE <<>>

\* the volume files after a SaveConfig of one of them returned sv
VolumeSaved(sv, uuid) ==
    LET saved == [sv.st EXCEPT !.volumes = IF sv.file = <<>> THEN Drop(@, uuid)
                                           ELSE Put(@, uuid, sv.file[1])]
    IN  IF saved.err THEN saved ELSE Log(saved, "saveVolume")

saveVolume(st, volume, failAt) ==
    VolumeSaved(SaveConfig(st, loadVolume(st, volume.UUID), volume, failAt),
                volume.UUID)

\* util.RemoveConfig of the volume file
deleteVolume(st, uuid, failAt) ==
    IF Fails(st, failAt) THEN Failed(st)
    ELSE Did([st EXCEPT !.volumes = Drop(@, uuid)], "deleteVolume")

\* util.SaveConfig(d.root, d.configName, d.Device)
DeviceSaved(sv) ==
    LET saved == [sv.st EXCEPT !.cfg = sv.file]
    IN  IF saved.err THEN saved ELSE Log(saved, "saveDevice")

saveDevice(st, failAt) ==
    DeviceSaved(SaveConfig(st, st.cfg, Device(st.LastDevID), failAt))

\* devicemapper.CreateDevice: create_thin of a new device id
CreateDevice(st, devID, failAt) ==
    IF Fails(st, failAt) \/ devID \in st.thin THEN Failed(st)
    ELSE Did([st EXCEPT !.thin = @ \cup {devID}, !.devID = devID], "create")

\* devicemapper.CreateSnapDevice: create_snap of a new device id on a base
CreateSnapDevice(st, devID, baseDevID, failAt) ==
    IF Fails(st, failAt) \/ devID \in st.thin \/ baseDevID \notin st.thin
    THEN Failed(st)
    ELSE Did([st EXCEPT !.thin = @ \cup {devID}, !.devID = devID], "create")

ActivateDeviceAnyName(st, name, devID, failAt) ==
    IF Fails(st, failAt) \/ devID \notin st.thin THEN Failed(st)
    ELSE Did([st EXCEPT !.dm = Put(@, name, devID)], "activate")

\* devicemapper.ActivateDevice: a kernel device of that name over the thin
\* device; a name that is active already is refused
ActivateDevice(st, name, devID, failAt) ==
    IF Fails(st, failAt) \/ name \in DOMAIN st.dm \/ devID \notin st.thin
    THEN Failed(st)
    ELSE Did([st EXCEPT !.dm = Put(@, name, devID)], "activate")

\* devicemapper.RemoveDevice: the kernel device of that name goes
RemoveDevice(st, name, failAt) ==
    IF Fails(st, failAt) \/ name \notin DOMAIN st.dm THEN Failed(st)
    ELSE Did([st EXCEPT !.dm = Drop(@, name)], "remove")

\* devicemapper.DeleteDevice: the thin device leaves the pool, unless active
DeleteDevice(st, devID, failAt) ==
    IF Fails(st, failAt) \/ devID \notin st.thin \/ devID \in Range(st.dm)
    THEN Failed(st)
    ELSE Did([st EXCEPT !.thin = @ \ {devID}], "delete")

\* the rollback of CreateVolume: the error of DeleteDevice is only logged
DeleteCreated(st, devID, rollbackFails) ==
    LET del == DeleteDevice([st EXCEPT !.err = FALSE], devID,
                            IF rollbackFails THEN st.n + 1 ELSE 0)
    IN  Error(del)

DriverCreateVolumeAnySize(st0, id, size, failAt, rollbackFails) ==
    IF loadVolume(st0, id) # <<>> THEN Error(st0)
    ELSE
    LET devID == st0.LastDevID
        cd == CreateDevice(st0, devID, failAt)
        ad == ActivateDevice(cd, id, devID, failAt)
        volume == [UUID |-> id, DevID |-> devID, Size |-> size, Base |-> "",
                   Snapshots |-> EmptyFn]
        sv == saveVolume(ad, volume, failAt)
        inc == [sv EXCEPT !.LastDevID = @ + 1]
    IN  IF cd.err THEN cd
        ELSE IF ad.err THEN DeleteCreated(ad, devID, rollbackFails)
        ELSE IF sv.err THEN sv
        ELSE saveDevice(inc, failAt)

DriverCreateVolume(st0, id, size, failAt, rollbackFails) ==
    IF size % (DEFAULT_THINPOOL_BLOCK_SIZE * SECTOR_SIZE) # 0 THEN Error(st0)
    ELSE IF loadVolume(st0, id) # <<>> THEN Error(st0)
    ELSE
    LET devID == st0.LastDevID
        cd == CreateDevice(st0, devID, failAt)
        ad == ActivateDevice(cd, id, devID, failAt)
        volume == [UUID |-> id, DevID |-> devID, Size |-> size, Base |-> "",
                   Snapshots |-> EmptyFn]
        sv == saveVolume(ad, volume, failAt)
        inc == [sv EXCEPT !.LastDevID = @ + 1]
    IN  IF cd.err THEN cd
        ELSE IF ad.err THEN DeleteCreated(ad, devID, rollbackFails)
        ELSE IF sv.err THEN sv
        ELSE saveDevice(inc, failAt)

DriverCreateSnapshot(st0, id, volumeID, failAt) ==
    IF loadVolume(st0, volumeID) = <<>> THEN Error(st0)
    ELSE
    LET volume == loadVolume(st0, volumeID)[1]
        devID == st0.LastDevID
        cs == CreateSnapDevice(st0, devID, volume.DevID, failAt)
        added == [volume EXCEPT !.Snapshots = Put(@, id, Snapshot(devID, FALSE))]
        inc == [cs EXCEPT !.LastDevID = @ + 1]
        sv == saveVolume(inc, added, failAt)
    IN  IF id \in DOMAIN volume.Snapshots THEN Error(st0)
        ELSE IF cs.err THEN cs
        ELSE IF sv.err THEN sv
        ELSE saveDevice(sv, failAt)

\* <<>> for an error; snap is a copy of the map's value, volume is the
\* record as cfgLoaded
getSnapshotAndVolume(st, snapshotID, volumeID) ==
    LET loaded == loadVolume(st, volumeID)
    IN  IF loaded = <<>> THEN <<>>
        ELSE IF snapshotID \notin DOMAIN loaded[1].Snapshots THEN <<>>
        ELSE <<[snap |-> loaded[1].Snapshots[snapshotID], volume |-> loaded[1]]>>

DriverDeleteSnapshotNoop(st0, id, volumeID, failAt) ==
    LET got == getSnapshotAndVolume(st0, id, volumeID)
        dd == DeleteDevice(st0, got[1].snap.DevID, failAt)
        less == [got[1].volume EXCEPT !.Snapshots = Drop(@, id)]
    IN  IF got = <<>> THEN st0
        ELSE IF dd.err THEN dd
        ELSE saveVolume(dd, less, failAt)

\* DeleteSnapshot that goes on when DeleteDevice fails
DriverDeleteSnapshotForced(st0, id, volumeID, failAt) ==
    LET got == getSnapshotAndVolume(st0, id, volumeID)
        dd == DeleteDevice(st0, got[1].snap.DevID, failAt)
        less == [got[1].volume EXCEPT !.Snapshots = Drop(@, id)]
    IN  IF got = <<>> THEN Error(st0)
        ELSE saveVolume([dd EXCEPT !.err = FALSE], less, failAt)

DriverDeleteSnapshot(st0, id, volumeID, failAt) ==
    LET got == getSnapshotAndVolume(st0, id, volumeID)
        dd == DeleteDevice(st0, got[1].snap.DevID, failAt)
        less == [got[1].volume EXCEPT !.Snapshots = Drop(@, id)]
    IN  IF got = <<>> THEN Error(st0)
        ELSE IF dd.err THEN dd
        ELSE saveVolume(dd, less, failAt)

\* the loop of DeleteVolume over volume.Snapshots, in the order given
RECURSIVE DeleteSnapshots(_, _, _, _)
DeleteSnapshots(st, order, volumeID, failAt) ==
    IF order = <<>> THEN st
    ELSE LET one == DriverDeleteSnapshot(st, Head(order), volumeID, failAt)
         IN  IF one.err THEN one
             ELSE DeleteSnapshots(one, Tail(order), volumeID, failAt)

DriverDeleteVolume(st0, id, order, failAt) ==
    IF loadVolume(st0, id) = <<>> THEN Error(st0)
    ELSE
    LET volume == loadVolume(st0, id)[1]
        ds == DeleteSnapshots(st0, order, id, failAt)
        rd == RemoveDevice(ds, id, failAt)
        dd == DeleteDevice(rd, volume.DevID, failAt)
    IN  IF ds.err THEN ds
        ELSE IF rd.err THEN rd
        ELSE IF dd.err THEN dd
        ELSE deleteVolume(dd, id, failAt)

\* the flag is set on the copy getSnapshotAndVolume returned; the record
\* saved is the volume as cfgLoaded
DriverOpenSnapshot(st0, id, volumeID, failAt) ==
    LET got == getSnapshotAndVolume(st0, id, volumeID)
        ad == ActivateDevice(st0, id, got[1].snap.DevID, failAt)
        snapshot == [got[1].snap EXCEPT !.Activated = TRUE]
        volume == got[1].volume
    IN  IF got = <<>> THEN Error(st0)
        ELSE IF ad.err THEN ad
        ELSE saveVolume(ad, volume, failAt)

DriverCloseSnapshot(st0, id, volumeID, failAt) ==
    LET got == getSnapshotAndVolume(st0, id, volumeID)
        rd == RemoveDevice(st0, id, failAt)
        snapshot == [got[1].snap EXCEPT !.Activated = FALSE]
        volume == got[1].volume
    IN  IF got = <<>> THEN Error(st0)
        ELSE IF rd.err THEN rd
        ELSE saveVolume(rd, volume, failAt)

\* os.Open of /dev/mapper/<id>, then ReadAt
DriverReadSnapshot(st0, id, volumeID, failAt) ==
    LET op == IF Fails(st0, failAt) \/ id \notin DOMAIN st0.dm THEN Failed(st0)
              ELSE Pass(st0)
        rd == IF Fails(op, failAt) THEN Failed(op) ELSE Did(op, "read")
    IN  IF getSnapshotAndVolume(st0, id, volumeID) = <<>> THEN Error(st0)
        ELSE IF op.err THEN op
        ELSE rd

\* Init at a daemon start: with a driver config the Device is cfgLoaded and the
\* pool, found active, is left alone; without one the pool would be created
\* anew, which the pool that is still there refuses
DriverInit(st0, failAt) ==
    IF st0.cfg = <<>> THEN Error(st0)
    ELSE IF Fails(st0, failAt) THEN Failed(st0)
    ELSE [Pass(st0) EXCEPT !.LastDevID = st0.cfg[1].LastDevID]

\* a fallible call after others: skipped once one of them has failed
Then(st, failAt) == IF st.err THEN st ELSE Try(st, failAt)

\* util.ListConfigIDs: the ids find prints, none when find fails
ListConfigIDs(ids, findFails) == IF findFails THEN <<>> ELSE ids

\* the loop of activatePool over the ids listed
RECURSIVE ActivateVolumes(_, _, _)
ActivateVolumes(st, ids, failAt) ==
    IF ids = <<>> \/ st.err THEN st
    ELSE IF loadVolume(st, Head(ids)) = <<>> THEN Error(st)
    ELSE ActivateVolumes(ActivateDevice(st, Head(ids),
                                        loadVolume(st, Head(ids))[1].DevID, failAt),
                         Tail(ids), failAt)

\* activatePool after createPool returned cp; up tells whether the pool
\* device is there
PoolCreated(cp, ids, failAt) ==
    [st |-> IF cp.err THEN cp ELSE ActivateVolumes(cp, ids, failAt),
     up |-> ~cp.err]

\* activatePool: a pool device that is there is left alone; otherwise the
\* data and metadata devices are opened, the pool is created and the device
\* of every volume listed is activated
activatePool(st, up, ids, findFails, failAt) ==
    IF up THEN [st |-> st, up |-> TRUE]
    ELSE PoolCreated(Then(Then(Try(st, failAt), failAt), failAt),
                     ListConfigIDs(ids, findFails), failAt)

\* Init with a driver config: the Device is loaded, the pool activated
InitFromConfig(st0, up, ids, findFails, failAt) ==
    IF st0.cfg = <<>> THEN [st |-> Error(st0), up |-> up]
    ELSE IF Fails(st0, failAt) THEN [st |-> Failed(st0), up |-> up]
    ELSE activatePool([Pass(st0) EXCEPT !.LastDevID = st0.cfg[1].LastDevID],
                      up, ids, findFails, failAt)

PoolInit == poolUp = TRUE

DriverCall(op, id, vol, st) ==
    [op |-> op, id |-> id, vol |-> vol, err |-> st.err, devID |-> st.devID,
     size |-> 0]

DriverIdle ==
    [op |-> "idle", id |-> "", vol |-> "", err |-> FALSE, devID |-> 0,
     size |-> 0]

\* a driver initialised on an empty pool: LastDevID = 1, saved
DriverStarted ==
    /\ volumes = EmptyFn
    /\ deviceCfg = <<Device(1)>>
    /\ daemon = <<Device(1)>>
    /\ thinDevs = {}
    /\ dmDevs = EmptyFn
    /\ issued = {}
    /\ session = [r \in Readers |-> <<>>]
    /\ usedIds = {}
    /\ drvCall = DriverIdle


----------------------------------------------------------------------------
(* The lock file of the daemon root (utils.LockFile, utils.UnlockFile and    *)
(* the daemon start in server.go).  A flock belongs to the open file         *)
(* description it was taken on and to the inode behind it, not to the path.  *)
(* LockFile never closes the file it opens and keeps no reference to it: the *)
(* descriptor stays open until the process exits or until the runtime's      *)
(* finalizer of the unreachable os.File closes it, whichever comes first.    *)

Daemons == 1 .. MaxDaemons

\* the directory entry of the lock file, the locked descriptor of each
\* process and the number of inodes made so far
LockFs(path, fd, made) == [path |-> path, fd |-> fd, made |-> made, err |-> FALSE]

LockFileUnchecked(fs, p, createFails) ==
    IF createFails THEN Error(fs)
    ELSE IF fs.path # <<>> THEN [fs EXCEPT !.fd[p] = fs.path]
    ELSE [fs EXCEPT !.path = <<fs.made + 1>>, !.made = @ + 1,
                    !.fd[p] = <<fs.made + 1>>]

\* LockFile: os.Create opens the file at the path, making it when missing;
\* Flock(LOCK_EX|LOCK_NB) fails at once when a descriptor holds the inode
LockFile(fs, p, createFails) ==
    IF createFails THEN Error(fs)
    ELSE LET made == IF fs.path # <<>> THEN fs
                     ELSE [fs EXCEPT !.path = <<fs.made + 1>>, !.made = @ + 1]
         IN  IF \E q \in Daemons : made.fd[q] = made.path THEN Error(made)
             ELSE [made EXCEPT !.fd[p] = made.path]

\* UnlockFile: os.Open of the path gives a new descriptor, on which
\* Flock(LOCK_UN) releases nothing that another descriptor holds; rm then
\* removes the path
UnlockFile(fs, p) ==
    IF fs.path = <<>> THEN Error(fs)
    ELSE [fs EXCEPT !.path = <<>>]

\* the process ends: its descriptors are closed
ProcessExit(fs, p) == [fs EXCEPT !.fd[p] = <<>>]

\* environmentCleanup: the error of UnlockFile is dropped
environmentCleanup(fs, p) == [UnlockFile(fs, p) EXCEPT !.err = fs.err]

\* Start up to serving: serverEnvironmentSetup takes the lock, and a failure
\* returns before the cleanup is deferred; a later failure runs the cleanup
Start(fs, p, createFails, initFails) ==
    LET lk == LockFile(fs, p, createFails)
    IN  IF lk.err THEN ProcessExit(lk, p)
        ELSE IF initFails THEN Error(ProcessExit(environmentCleanup(lk, p), p))
        ELSE lk

LockInit ==
    /\ lockPath = <<>>
    /\ lockFd = [p \in Daemons |-> <<>>]
    /\ inodes = 0
    /\ running = {}


----------------------------------------------------------------------------
(* The request handlers of the daemon and the process-wide GlobalLock, a     *)
(* sync.RWMutex.  http.Serve runs every request in a goroutine of its own;   *)
(* a handler takes the lock in its first statement, defers the release and   *)
(* then decodes the request, works on the shared state and writes the        *)
(* response, returning early with an error from any of these.                *)

Handlers == 1 .. MaxHandlers

\* the handlers that take GlobalLock.Lock and those that take GlobalLock.RLock
Mutating == {"doVolumeCreate", "doVolumeDelete", "doVolumeMount",
             "doVolumeUmount", "doSnapshotCreate", "doSnapshotDelete"}
Reading == {"doVolumeList", "doVolumeInspect"}

RWMutex(writer, readers) == [writer |-> writer, readers |-> readers]

CanLockAlways(mu) == TRUE

\* Lock returns once no goroutine holds the mutex for reading or writing
CanLock(mu) == mu.writer = <<>> /\ mu.readers = {}

\* RLock returns once no goroutine holds the mutex for writing
CanRLock(mu) == mu.writer = <<>>

Lock(mu, h) == [mu EXCEPT !.writer = <<h>>]

Unlock(mu, h) == [mu EXCEPT !.writer = <<>>]

RLock(mu, h) == [mu EXCEPT !.readers = @ \cup {h}]

RUnlock(mu, h) == [mu EXCEPT !.readers = @ \ {h}]

\* where a handler stands: no request, at its Lock or RLock call, or in its
\* body after it; failed tells how its last request returned
Handler(kind, pc, failed) == [kind |-> kind, pc |-> pc, failed |-> failed]

InBody(hd) == hd.pc \in {"decode", "process", "respond"}

ServerInit ==
    /\ GlobalLock = RWMutex(<<>>, {})
    /\ handlers = [h \in Handlers |-> Handler("", "idle", FALSE)]

----------------------------------------------------------------------------
(* Base images (devmapper.go): one file per activated image with its size    *)
(* and VolumeRef, the set of the volumes created on it, and the loopback     *)
(* device the image file is attached to                                      *)

ImageIds == {"i1"}

Image(size, refs) == [Size |-> size, VolumeRef |-> refs]

\* <<>> for nil
loadImage(images, uuid) == IF uuid \in DOMAIN images THEN <<images[uuid]>> ELSE <<>>

\* what a call leaves: the driver's context, the image files, the images
\* with a loopback device
ImageCall(st, images, loops) == [st |-> st, images |-> images, loops |-> loops]

ImageSaved(sv, images, loops, uuid) ==
    ImageCall(sv.st, IF sv.file = <<>> THEN Drop(images, uuid)
                     ELSE Put(images, uuid, sv.file[1]), loops)

saveImage(st, images, loops, uuid, image, failAt) ==
    ImageSaved(SaveConfig(st, loadImage(images, uuid), image, failAt),
               images, loops, uuid)

\* ActivateImage after os.Stat and AttachLoopbackDevice returned at
ImageAttached(at, images, loops, imageUUID, size, failAt) ==
    IF at.err THEN ImageCall(at, images, loops)
    ELSE saveImage(at, images, loops \cup {imageUUID}, imageUUID,
                   Image(size, {}), failAt)

DriverActivateImage(st0, images, loops, imageUUID, size, failAt) ==
    IF loadImage(images, imageUUID) # <<>> THEN ImageCall(Error(st0), images, loops)
    ELSE ImageAttached(Then(Try(st0, failAt), failAt), images, loops,
                       imageUUID, size, failAt)

\* DeactivateImage after DetachLoopbackDevice returned dt
ImageDetached(dt, images, loops, imageUUID, failAt) ==
    IF dt.err THEN ImageCall(dt, images, loops)
    ELSE IF Fails(dt, failAt) THEN ImageCall(Failed(dt), images, loops \ {imageUUID})
    ELSE ImageCall(Pass(dt), Drop(images, imageUUID), loops \ {imageUUID})

DriverDeactivateImage(st0, images, loops, imageUUID, failAt) ==
    IF loadImage(images, imageUUID) = <<>> THEN ImageCall(Error(st0), images, loops)
    ELSE IF \E volumeUUID \in images[imageUUID].VolumeRef :
                loadVolume(st0, volumeUUID) # <<>>
    THEN ImageCall(Error(st0), images, loops)
    ELSE ImageDetached(Try(st0, failAt), images, loops, imageUUID, failAt)

\* CreateVolume after the volume's device is active: the image, when there
\* is one, is saved with the volume in its VolumeRef, then the volume, then
\* the driver config with LastDevID raised
VolumeRecorded(si, volume, failAt) ==
    IF si.st.err THEN si
    ELSE LET sv == saveVolume(si.st, volume, failAt)
         IN  IF sv.err THEN ImageCall(sv, si.images, si.loops)
             ELSE ImageCall(saveDevice([sv EXCEPT !.LastDevID = @ + 1], failAt),
                            si.images, si.loops)

VolumeActivated(ad, images, loops, id, baseID, devID, size, failAt, rollbackFails) ==
    IF ad.err THEN ImageCall(DeleteCreated(ad, devID, rollbackFails), images, loops)
    ELSE VolumeRecorded(
             IF baseID = "" THEN ImageCall(ad, images, loops)
             ELSE saveImage(ad, images, loops, baseID,
                            [images[baseID] EXCEPT !.VolumeRef = @ \cup {id}], failAt),
             [UUID |-> id, DevID |-> devID, Size |-> size, Base |-> baseID,
              Snapshots |-> EmptyFn], failAt)

VolumeDeviceCreated(cd, images, loops, id, baseID, devID, size, failAt, rollbackFails) ==
    IF cd.err THEN ImageCall(cd, images, loops)
    ELSE VolumeActivated(ActivateDevice(cd, id, devID, failAt), images, loops,
                         id, baseID, devID, size, failAt, rollbackFails)

\* CreateVolume with its base image: "" for none
CreateVolumeOnBase(st0, images, loops, id, baseID, size, failAt, rollbackFails) ==
    IF size % (DEFAULT_THINPOOL_BLOCK_SIZE * SECTOR_SIZE) # 0
    THEN ImageCall(Error(st0), images, loops)
    ELSE IF loadVolume(st0, id) # <<>> THEN ImageCall(Error(st0), images, loops)
    ELSE IF baseID # "" /\ loadImage(images, baseID) = <<>>
    THEN ImageCall(Error(st0), images, loops)
    ELSE IF baseID # "" /\ baseID \notin loops THEN ImageCall(Error(st0), images, loops)
    ELSE IF baseID # "" /\ size # images[baseID].Size
    THEN ImageCall(Error(st0), images, loops)
    ELSE VolumeDeviceCreated(CreateDevice(st0, st0.LastDevID, failAt), images, loops,
                             id, baseID, st0.LastDevID, size, failAt, rollbackFails)

\* DeleteVolume after DeleteDevice returned dd: the volume is taken from the
\* VolumeRef of the image that was loaded, and the image is not saved
VolumeDeviceDeleted(dd, images, volume, failAt) ==
    IF dd.err THEN dd
    ELSE IF volume.Base # "" /\ loadImage(images, volume.Base) = <<>> THEN Error(dd)
    ELSE IF volume.Base # "" /\ volume.UUID \notin images[volume.Base].VolumeRef
    THEN Error(dd)
    ELSE deleteVolume(dd, volume.UUID, failAt)

\* DeleteVolume after its loop over the snapshots returned ds
VolumeDevicesGone(ds, id, devID, failAt) ==
    IF ds.err THEN ds
    ELSE LET rd == RemoveDevice(ds, id, failAt)
         IN  IF rd.err THEN rd ELSE DeleteDevice(rd, devID, failAt)

DeleteVolumeOnBase(st0, images, id, order, failAt) ==
    IF loadVolume(st0, id) = <<>> THEN Error(st0)
    ELSE VolumeDeviceDeleted(
             VolumeDevicesGone(DeleteSnapshots(st0, order, id, failAt), id,
                               loadVolume(st0, id)[1].DevID, failAt),
             images, loadVolume(st0, id)[1], failAt)

ImageInit ==
    /\ imageCfg = EmptyFn
    /\ loopDevs = {}

----------------------------------------------------------------------------
(* encoding/json as SaveConfig and LoadConfig use it on a devmapper Volume:  *)
(* an object is the sequence of its members <<key, value>>, a number is its  *)
(* decimal digits                                                            *)

\* strconv: the decimal digits of n, most significant first
RECURSIVE Digits(_)
Digits(n) == IF n < 10 THEN <<n>> ELSE Append(Digits(n \div 10), n % 10)

RECURSIVE ParseDigits(_)
ParseDigits(ds) ==
    IF ds = <<>> THEN 0
    ELSE 10 * ParseDigits(SubSeq(ds, 1, Len(ds) - 1)) + ds[Len(ds)]

JsonNumber(n) == [kind |-> "number", body |-> Digits(n)]
JsonString(s) == [kind |-> "string", body |-> <<s>>]
JsonBool(b) == [kind |-> "bool", body |-> <<b>>]
JsonObject(members) == [kind |-> "object", body |-> members]

\* the order json.Marshal writes the keys of a map in
SortedKeys == <<"s1", "s2">>

MarshalSnapshot(s) ==
    JsonObject(<< <<"DevID", JsonNumber(s.DevID)>>,
                  <<"Activated", JsonBool(s.Activated)>> >>)

MarshalSnapshots(m) ==
    LET keys == SelectSeq(SortedKeys, LAMBDA k : k \in DOMAIN m)
    IN  JsonObject([i \in 1 .. Len(keys) |->
                       <<keys[i], MarshalSnapshot(m[keys[i]])>>])

MarshalEmpty(volume) == JsonObject(<<>>)

\* json.Marshal of a Volume: its exported fields in the order of the struct
Marshal(volume) ==
    JsonObject(<< <<"UUID", JsonString(volume.UUID)>>,
                  <<"DevID", JsonNumber(volume.DevID)>>,
                  <<"Size", JsonNumber(volume.Size)>>,
                  <<"Base", JsonString(volume.Base)>>,
                  <<"Snapshots", MarshalSnapshots(volume.Snapshots)>> >>)

\* the values of the members of that key, in the order of the text
Members(obj, key) == SelectSeq(obj.body, LAMBDA m : m[1] = key)

\* a field after Unmarshal: decoded from the last member of its key, left
\* as it was when the text has none
Field(obj, key, was, Decode(_)) ==
    LET ms == Members(obj, key)
    IN  IF ms = <<>> THEN was ELSE Decode(ms[Len(ms)][2])

DecodeNumber(j) == ParseDigits(j.body)
DecodeFirst(j) == j.body[1]

UnmarshalSnapshot(obj, was) ==
    [DevID |-> Field(obj, "DevID", was.DevID, DecodeNumber),
     Activated |-> Field(obj, "Activated", was.Activated, DecodeFirst)]

\* a map keeps the entries it has; every member is decoded into a zero value
UnmarshalSnapshots(obj, was) ==
    LET keys == {obj.body[i][1] : i \in DOMAIN obj.body}
        DecodeEntry(j) == UnmarshalSnapshot(j, Snapshot(0, FALSE))
    IN  [k \in DOMAIN was \cup keys |->
            Field(obj, k, IF k \in DOMAIN was THEN was[k] ELSE Snapshot(0, FALSE),
                  DecodeEntry)]

\* json.Unmarshal of a text into a Volume that holds was
Unmarshal(obj, was) ==
    LET DecodeMap(j) == UnmarshalSnapshots(j, was.Snapshots)
    IN  [UUID |-> Field(obj, "UUID", was.UUID, DecodeFirst),
         DevID |-> Field(obj, "DevID", was.DevID, DecodeNumber),
         Size |-> Field(obj, "Size", was.Size, DecodeNumber),
         Base |-> Field(obj, "Base", was.Base, DecodeFirst),
         Snapshots |-> Field(obj, "Snapshots", was.Snapshots, DecodeMap)]

\* &Volume{}: the nil map is modelled as the empty one
ZeroVolume ==
    [UUID |-> "", DevID |-> 0, Size |-> 0, Base |-> "", Snapshots |-> EmptyFn]

\* the values the configs saved stand for
ConfigValue(v) ==
    [UUID |-> "v1", DevID |-> IF v = 1 THEN 1 ELSE 10 * v + 1,
     Size |-> v * DEFAULT_THINPOOL_BLOCK_SIZE * SECTOR_SIZE, Base |-> "",
     Snapshots |-> IF v = 1 THEN EmptyFn
                   ELSE IF v = 2 THEN Put(EmptyFn, "s1", Snapshot(9, TRUE))
                   ELSE Put(Put(EmptyFn, "s2", Snapshot(10, FALSE)),
                            "s1", Snapshot(100, TRUE))]

NotLoaded == [op |-> "none", err |-> FALSE, v |-> ZeroVolume]

\* LoadConfig into a new Volume: os.Stat and os.Open of the final file,
\* Read, json.Unmarshal, which refuses a text that is cut short
LoadConfig(file) ==
    IF file = <<>> \/ ~file[1].complete
    THEN [op |-> "LoadConfig", err |-> TRUE, v |-> ZeroVolume]
    ELSE [op |-> "LoadConfig", err |-> FALSE,
          v |-> Unmarshal(Marshal(ConfigValue(file[1].v)), ZeroVolume)]

----------------------------------------------------------------------------
(* SaveConfig step by step, as a crash or a concurrent reader sees the two   *)
(* files it works on: the final file and the temporary file next to it.      *)

Configs == 1 .. MaxConfigs

\* a file's content: the marshalled value v, whole or cut short
File(v, complete) == [v |-> v, complete |-> complete]

\* the call in progress: its position, the value it saves and the final
\* file it found
Saving(pc, v, old) == [pc |-> pc, v |-> v, old |-> old]

SaveInit ==
    /\ cfgFile = <<File(1, TRUE)>>
    /\ tmpFile = <<>>
    /\ save = Saving("idle", 1, <<>>)
    /\ cfgLoaded = NotLoaded

\* the restore target is a volume of the origin's size and base
TargetInit == targetVol = <<[Size |-> VolumeSize, Base |-> ""]>>

\* no mergeSnapshotMap call is under study
MergeIdle == mergeIn = [delta |-> <<>>, last |-> <<>>] /\ mergeOut = <<>>

\* no call of waitForServices yet
NoPoll == [err |-> FALSE, services |-> <<>>]
WaitInit ==
    waitCall = [pc |-> "idle", i |-> 0, ready |-> FALSE, result |-> "", polls |-> 0,
                count |-> 0, state |-> "active", seen |-> NoPoll]

\* a server without volumes
IndexInit == srvVolumes = EmptyFn /\ NameUUIDIndex = EmptyFn /\ UUIDIndex = {}

\* no kernel device has an external origin
OriginInit == dmOrigin = EmptyFn

ServicesInit ==
    /\ DriverStarted /\ LockInit /\ ServerInit /\ SaveInit /\ PoolInit /\ ImageInit
    /\ TargetInit /\ OriginInit /\ IndexInit /\ WaitInit

HostInit == ServicesInit /\ MergeIdle

----------------------------------------------------------------------------
(* The store of one volume: state and actions *)

ZeroDevice == [i \in BlockIdx |-> ZeroBlock]

\* blockSize is the block size of the storage driver handed to the call
Call(op, snap, blockSize, st) ==
    [op |-> op, snap |-> snap, blockSize |-> blockSize, err |-> st.err,
     trace |-> st.trace, written |-> st.written]

Idle ==
    [op |-> "idle", snap |-> "", blockSize |-> DEFAULT_BLOCK_SIZE, err |-> FALSE,
     trace |-> <<>>, written |-> <<>>]

Registered == [UUID |-> 1, Kind |-> "vfs", BlockSize |-> DEFAULT_BLOCK_SIZE]

\* no volume in the store, no local snapshot, an empty target
EngineInit ==
    /\ blobs = EmptyFn
    /\ snapMaps = EmptyFn
    /\ volCfg = <<>>
    /\ snapData = EmptyFn
    /\ created = 0
    /\ target = ZeroDevice
    /\ parentOf = EmptyFn
    /\ lastCall = Idle

VolumeInit == EngineInit /\ HostInit

\* a registered store
StoreInit ==
    /\ VolumeInit
    /\ remoteCfg = <<Registered>>
    /\ localCfg = Put(EmptyFn, 1, Registered)
    /\ minted = 1

\* the storage driver takes a snapshot of the volume: ids are fresh and the
\* volume may hold any bytes at that moment
CreateSnapshot(id, content) ==
    /\ lastCall = Idle
    /\ id = ToString(created + 1)
    /\ snapData' = Put(snapData, id, content)
    /\ created' = created + 1
    /\ UNCHANGED <<blobs, snapMaps, volCfg, target, parentOf, lastCall, regVars, hostVars>>

\* the storage driver deletes a local snapshot
DeleteSnapshot(id) ==
    /\ lastCall = Idle
    /\ id \in DOMAIN snapData
    /\ snapData' = Drop(snapData, id)
    /\ UNCHANGED <<blobs, snapMaps, volCfg, created, target, parentOf, lastCall, regVars, hostVars>>

\* a new, empty target volume for a restore
CreateTarget ==
    /\ lastCall = Idle
    /\ target # ZeroDevice
    /\ target' = ZeroDevice
    /\ UNCHANGED <<blobs, snapMaps, volCfg, snapData, created, parentOf, lastCall, regVars, hostVars>>

\* the command that made the call reports its outcome and ends
Return ==
    /\ lastCall # Idle
    /\ lastCall' = Idle
    /\ UNCHANGED <<storeVars, regVars, hostVars>>

\* the parent of each stored map after a call: that of the map the call
\* wrote, none for a map the call removed
ParentsAfter(st, snapshotID, parent) ==
    LET kept == [s \in (DOMAIN parentOf) \cap (DOMAIN st.snapMaps) |-> parentOf[s]]
    IN  IF snapshotID \in DOMAIN st.snapMaps /\ snapshotID \notin DOMAIN snapMaps
        THEN Put(kept, snapshotID, parent)
        ELSE kept

\* the number of fallible driver calls a call makes when none fails
AddVolumeCalls == AddVolume(Ctx(blobs, snapMaps, volCfg), "", VolumeSize, 0).n

DoAddVolume(failAt) ==
    \E st \in {AddVolume(Ctx(blobs, snapMaps, volCfg), "", VolumeSize, failAt)} :
        /\ lastCall = Idle
        /\ volCfg' = st.volCfg
        /\ lastCall' = Call("AddVolume", "", DEFAULT_BLOCK_SIZE, st)
        /\ UNCHANGED <<blobs, snapMaps, snapData, created, target, parentOf, regVars, hostVars>>

BackupCalls(snapshotID, driverBlockSize, rewritten) ==
    BackupSnapshot(Ctx(blobs, snapMaps, volCfg), snapshotID, driverBlockSize, rewritten, 0).n

\* the blocks of a snapshot that may have been rewritten with the bytes the
\* parent holds there
Rewritable(snapshotID) ==
    LET parent == IF volCfg = <<>> THEN "" ELSE BackupParent(volCfg[1], snapshotID)
    IN  IF parent = "" \/ {snapshotID, parent} \cap DOMAIN snapData # {snapshotID, parent}
        THEN {}
        ELSE {i \in (DOMAIN snapData[snapshotID]) \cap (DOMAIN snapData[parent]) :
                snapData[snapshotID][i] = snapData[parent][i]}

BackupStep(snapshotID, driverBlockSize, rewritten, failAt, st) ==
    /\ lastCall = Idle
    /\ blobs' = st.blobs
    /\ snapMaps' = st.snapMaps
    /\ volCfg' = st.volCfg
    /\ lastCall' = Call("BackupSnapshot", snapshotID, driverBlockSize, st)
    /\ UNCHANGED <<snapData, created, target, regVars, hostVars>>

DoBackupSnapshot(snapshotID, driverBlockSize, rewritten, failAt) ==
    \E st \in {BackupSnapshot(Ctx(blobs, snapMaps, volCfg), snapshotID,
                              driverBlockSize, rewritten, failAt)} :
        /\ BackupStep(snapshotID, driverBlockSize, rewritten, failAt, st)
        /\ UNCHANGED parentOf

\* the same call, with the parent it settled on recorded for the map written
DoBackupRecorded(snapshotID, driverBlockSize, rewritten, failAt) ==
    \E st \in {BackupSnapshot(Ctx(blobs, snapMaps, volCfg), snapshotID,
                              driverBlockSize, rewritten, failAt)} :
        /\ BackupStep(snapshotID, driverBlockSize, rewritten, failAt, st)
        /\ parentOf' = ParentsAfter(st, snapshotID,
                           IF volCfg = <<>> THEN "" ELSE BackupParent(volCfg[1], snapshotID))

\* the orders in which the two map iterations of RemoveSnapshot can run:
\* over the other stored snapshots and over the checksums of the removed map
ScanOrders(snapshotID) == Perms((DOMAIN snapMaps) \ {snapshotID})

RemoveOrders(snapshotID) ==
    IF snapshotID \in DOMAIN snapMaps
    THEN Perms(ChecksumsOf(snapMaps[snapshotID].Blocks))
    ELSE {<<>>}

RemoveCalls(snapshotID, scanOrder, removeOrder) ==
    RemoveSnapshot(Ctx(blobs, snapMaps, volCfg), snapshotID, scanOrder, removeOrder, 0).n

DoRemoveSnapshot(snapshotID, scanOrder, removeOrder, failAt) ==
    \E st \in {RemoveSnapshot(Ctx(blobs, snapMaps, volCfg), snapshotID,
                              scanOrder, removeOrder, failAt)} :
        /\ lastCall = Idle
        /\ blobs' = st.blobs
        /\ snapMaps' = st.snapMaps
        /\ volCfg' = st.volCfg
        /\ parentOf' = ParentsAfter(st, snapshotID, "")
        /\ lastCall' = Call("RemoveSnapshot", snapshotID, DEFAULT_BLOCK_SIZE, st)
        /\ UNCHANGED <<snapData, created, target, regVars, hostVars>>

RestoreCalls(srcSnapshotID) ==
    RestoreSnapshot(Ctx(blobs, snapMaps, volCfg), target, srcSnapshotID, 0).st.n

DoRestoreSnapshot(srcSnapshotID, failAt) ==
    \E res \in {RestoreSnapshot(Ctx(blobs, snapMaps, volCfg), target, srcSnapshotID, failAt)} :
        /\ lastCall = Idle
        /\ target' = res.target
        /\ lastCall' = Call("RestoreSnapshot", srcSnapshotID, DEFAULT_BLOCK_SIZE, res.st)
        /\ UNCHANGED <<blobs, snapMaps, volCfg, snapData, created, parentOf, regVars, hostVars>>

AddVolumeNext == \E failAt \in 0 .. AddVolumeCalls : DoAddVolume(failAt)

BackupNext(ids, blockSizes) ==
    \E id \in ids, bs \in blockSizes :
        \E rewritten \in SUBSET Rewritable(id) :
            \E failAt \in 0 .. BackupCalls(id, bs, rewritten) :
                DoBackupSnapshot(id, bs, rewritten, failAt)

RemoveNext(ids) ==
    \E id \in ids :
        \E scanOrder \in ScanOrders(id), removeOrder \in RemoveOrders(id) :
            \E failAt \in 0 .. RemoveCalls(id, scanOrder, removeOrder) :
                DoRemoveSnapshot(id, scanOrder, removeOrder, failAt)

----------------------------------------------------------------------------
(* Register and Deregister (blockstore.go) *)

\* the record Register threads through its calls; UUID and BlockSize are
\* the values it returns ("" and 0 with an error, here 0 and 0)
RegCtx(remote, local, count) ==
    [remoteCfg |-> remote, localCfg |-> local, minted |-> count, n |-> 0,
     err |-> FALSE, trace |-> <<>>, written |-> <<>>, UUID |-> 0, BlockSize |-> 0]

loadRemoteBlockStoreConfig(st, failAt) ==
    loadConfigInObjectStore(st, st.remoteCfg # <<>>, failAt)

saveRemoteBlockStoreConfig(st, bs, failAt) ==
    IF Fails(st, failAt) THEN Failed(st)
    ELSE Did([st EXCEPT !.remoteCfg = <<bs>>], "saveRemote")

\* the tail of Register: the local copy objectstore_<uuid>.cfg is saved
\* with utils.SaveConfig and the values are returned
RegisterLocal(st, bs, failAt) ==
    LET old == IF bs.UUID \in DOMAIN st.localCfg THEN <<st.localCfg[bs.UUID]>>
               ELSE <<>>
        sv == SaveConfig(st, old, bs, failAt)
        files == IF sv.file = <<>> THEN Drop(st.localCfg, bs.UUID)
                 ELSE Put(st.localCfg, bs.UUID, sv.file[1])
        saved == [sv.st EXCEPT !.localCfg = files]
    IN  IF saved.err THEN saved
        ELSE [Log(saved, "saveLocal") EXCEPT
                 !.UUID = bs.UUID, !.BlockSize = bs.BlockSize]

\* Register: the driver is made, objectstore.cfg is cfgLoaded; when the load
\* succeeds its UUID is reused, on any load error a UUID is minted, the
\* base directory made and objectstore.cfg written
Register(st0, kind, failAt) ==
    LET drv == IF Fails(st0, failAt) THEN Failed(st0) ELSE Pass(st0)
        ld == loadRemoteBlockStoreConfig(drv, failAt)
    IN  IF drv.err THEN drv
        ELSE IF ~ld.err
        THEN LET bs == ld.remoteCfg[1]
             IN  IF bs.Kind # kind THEN Error(ld)
                 ELSE RegisterLocal(ld, bs, failAt)
        ELSE LET new == [ld EXCEPT !.err = FALSE, !.minted = @ + 1]
                 bs == [UUID |-> new.minted, Kind |-> kind,
                        BlockSize |-> DEFAULT_BLOCK_SIZE]
                 mk == IF Fails(new, failAt) THEN Failed(new) ELSE Pass(new)
                 sv == saveRemoteBlockStoreConfig(mk, bs, failAt)
             IN  IF mk.err THEN mk
                 ELSE IF sv.err THEN sv
                 ELSE RegisterLocal(sv, bs, failAt)

\* Deregister: the local copy is cfgLoaded, the driver's config file and the
\* local copy are removed
Deregister(st0, id, failAt) ==
    LET ld == IF id \notin DOMAIN st0.localCfg THEN Error(st0)
              ELSE IF Fails(st0, failAt) THEN Failed(st0) ELSE Pass(st0)
        rd == IF Fails(ld, failAt) THEN Failed(ld) ELSE Pass(ld)
        rc == IF Fails(rd, failAt) THEN Failed(rd)
              ELSE Did([rd EXCEPT !.localCfg = Drop(@, id)], "removeLocal")
    IN  IF ld.err THEN ld
        ELSE IF rd.err THEN rd
        ELSE rc

\* what a Register call was given and what it returned
Registration(kind, st) ==
    [op |-> "Register", kind |-> kind, err |-> st.err, trace |-> st.trace,
     UUID |-> st.UUID, BlockSize |-> st.BlockSize]

\* no store at the remote location yet
RegInit ==
    /\ VolumeInit
    /\ remoteCfg = <<>>
    /\ localCfg = EmptyFn
    /\ minted = 0

RegisterCalls(kind) == Register(RegCtx(remoteCfg, localCfg, minted), kind, 0).n

DoRegister(kind, failAt) ==
    \E st \in {Register(RegCtx(remoteCfg, localCfg, minted), kind, failAt)} :
        /\ st.minted <= MaxUUID
        /\ remoteCfg' = st.remoteCfg
        /\ localCfg' = st.localCfg
        /\ minted' = st.minted
        /\ lastCall' = Registration(kind, st)
        /\ UNCHANGED <<storeVars, hostVars>>

DeregisterCalls(id) == Deregister(RegCtx(remoteCfg, localCfg, minted), id, 0).n

DoDeregister(id, failAt) ==
    \E st \in {Deregister(RegCtx(remoteCfg, localCfg, minted), id, failAt)} :
        /\ localCfg' = st.localCfg
        /\ lastCall' = [op |-> "Deregister", kind |-> "", err |-> st.err,
                        trace |-> st.trace, UUID |-> id, BlockSize |-> 0]
        /\ UNCHANGED <<storeVars, remoteCfg, minted, hostVars>>

(* Registration: a client registers a store location under either kind and  *)
(* deregisters its local copies, every driver call failing or not           *)
RegNext ==
    \/ \E kind \in Kinds : \E failAt \in 0 .. RegisterCalls(kind) :
          DoRegister(kind, failAt)
    \/ \E id \in 1 .. MaxUUID : \E failAt \in 0 .. DeregisterCalls(id) :
          DoDeregister(id, failAt)

RegSpec == RegInit /\ [][RegNext]_vars

(* Garbage collection: snapshots of fully provisioned volumes, backed up    *)
(* and removed in any order, every driver call failing or not               *)
GCNext ==
    \/ \E id \in SnapIds, content \in FullContents : CreateSnapshot(id, content)
    \/ AddVolumeNext
    \/ BackupNext(SnapIds, {DEFAULT_BLOCK_SIZE})
    \/ RemoveNext(SnapIds)
    \/ Return

GCSpec == StoreInit /\ [][GCNext]_vars

(* Backup: snapshots of thin volumes (provisioned or not block by block),   *)
(* kept or deleted locally, backed up by a driver of either block size and  *)
(* removed, every driver call failing or not                                *)
StoreNext ==
    \/ \E id \in FewSnapIds, content \in Contents : CreateSnapshot(id, content)
    \/ \E id \in FewSnapIds : DeleteSnapshot(id)
    \/ AddVolumeNext
    \/ BackupNext(FewSnapIds, DriverBlockSizes)
    \/ RemoveNext(FewSnapIds)
    \/ Return

StoreSpec == StoreInit /\ [][StoreNext]_vars

(* Restore: the same snapshots, backed up with the parent of every stored   *)
(* map recorded, and restored to the target volume                          *)
RestoreNext ==
    \/ \E id \in FewSnapIds, content \in Contents : CreateSnapshot(id, content)
    \/ \E id \in FewSnapIds : DeleteSnapshot(id)
    \/ CreateTarget
    \/ AddVolumeNext
    \/ \E id \in FewSnapIds :
          \E rewritten \in SUBSET Rewritable(id) :
              \E failAt \in 0 .. BackupCalls(id, DEFAULT_BLOCK_SIZE, rewritten) :
                  DoBackupRecorded(id, DEFAULT_BLOCK_SIZE, rewritten, failAt)
    \/ \E id \in FewSnapIds :
          \E failAt \in 0 .. RestoreCalls(id) : DoRestoreSnapshot(id, failAt)
    \/ Return

RestoreSpec == StoreInit /\ [][RestoreNext]_vars

----------------------------------------------------------------------------
(* Backups run again: the call that was made is kept with the number of the  *)
(* driver call that was made to fail, 0 when none was                        *)

Noted(call, failAt) == call @@ [failAt |-> failAt]

DoBackupNoted(snapshotID, failAt) ==
    \E st \in {BackupSnapshot(Ctx(blobs, snapMaps, volCfg), snapshotID,
                              DEFAULT_BLOCK_SIZE, {}, failAt)} :
        /\ lastCall = Idle
        /\ blobs' = st.blobs
        /\ snapMaps' = st.snapMaps
        /\ volCfg' = st.volCfg
        /\ lastCall' = Noted(Call("BackupSnapshot", snapshotID, DEFAULT_BLOCK_SIZE, st),
                             failAt)
        /\ UNCHANGED <<snapData, created, target, parentOf, regVars, hostVars>>

RerunNext ==
    \/ \E id \in FewSnapIds, content \in Contents : CreateSnapshot(id, content)
    \/ AddVolumeNext
    \/ \E id \in FewSnapIds :
          \E failAt \in 0 .. BackupCalls(id, DEFAULT_BLOCK_SIZE, {}) :
              DoBackupNoted(id, failAt)
    \/ Return

RerunSpec == StoreInit /\ [][RerunNext]_vars

----------------------------------------------------------------------------
(* mergeSnapshotMap on its own: every delta and every last map that are      *)
(* sorted strictly by offset, over a few offsets and checksums               *)

MergeOffsets == {i * DEFAULT_BLOCK_SIZE : i \in 0 .. (MaxMergeBlocks - 1)}
MergeChecksums == {GetChecksum(d) : d \in Data}

\* the blocks of a map from offsets to checksums, in the order of the offsets
RECURSIVE SortedBlocks(_)
SortedBlocks(f) ==
    IF DOMAIN f = {} THEN <<>>
    ELSE LET o == Min(DOMAIN f)
         IN  <<BlockMapping(o, f[o])>> \o SortedBlocks([x \in (DOMAIN f) \ {o} |-> f[x]])

SortedLists ==
    {SortedBlocks(f) : f \in UNION {[offs -> MergeChecksums] : offs \in SUBSET MergeOffsets}}

\* the last map is nil or a stored map
MergeInputs ==
    [delta : SortedLists,
     last : {<<>>} \cup {<<[ID |-> ToString(1), Blocks |-> b]>> : b \in SortedLists}]

MergeInit ==
    /\ EngineInit
    /\ remoteCfg = <<>> /\ localCfg = EmptyFn /\ minted = 0
    /\ ServicesInit
    /\ mergeIn \in MergeInputs
    /\ mergeOut = <<>>

DoMerge ==
    /\ mergeOut = <<>>
    /\ mergeOut' = <<mergeSnapshotMap(ToString(2), mergeIn.delta, mergeIn.last)>>
    /\ UNCHANGED <<mergeIn, engineVars, driverVars, lockVars, serverVars, saveVars,
                   poolVars, imageVars, cmdVars, originVars, indexVars, waitVars>>

MergeNext == DoMerge

MergeSpec == MergeInit /\ [][MergeNext]_vars

----------------------------------------------------------------------------
(* The restore command on one origin volume and one target volume *)

OneSnapId == {ToString(1)}
TargetSizes == {VolumeSize, VolumeSize + DEFAULT_BLOCK_SIZE}
TargetBases == {"", "i1"}
TargetVolumes == [Size : TargetSizes, Base : TargetBases]

\* the driver's record of the origin volume, with its local snapshots
OriginVolume == <<[Size |-> VolumeSize, Base |-> "", Snapshots |-> DOMAIN snapData]>>

\* the target volume is deleted, or created anew with a size and a base
ChangeTargetVolume(vol) ==
    /\ lastCall = Idle
    /\ targetVol # vol
    /\ targetVol' = vol
    /\ target' = ZeroDevice
    /\ UNCHANGED <<blobs, snapMaps, volCfg, snapData, created, parentOf, lastCall,
                   regVars, exceptCmd>>

RestoreCmdCalls(snapshotUUID) ==
    doSnapshotRestore(Ctx(blobs, snapMaps, volCfg), target, OriginVolume, targetVol,
                      snapshotUUID, 0).st.n

CmdSnapshotRestore(snapshotUUID, failAt) ==
    \E res \in {doSnapshotRestore(Ctx(blobs, snapMaps, volCfg), target, OriginVolume,
                                  targetVol, snapshotUUID, failAt)} :
        /\ lastCall = Idle
        /\ target' = res.target
        /\ lastCall' = Call("doSnapshotRestore", snapshotUUID, DEFAULT_BLOCK_SIZE, res.st)
        /\ UNCHANGED <<blobs, snapMaps, volCfg, snapData, created, parentOf, regVars,
                       hostVars>>

RestoreCmdNext ==
    \/ \E content \in Contents : CreateSnapshot(ToString(1), content)
    \/ \E vol \in {<<>>} \cup {<<v>> : v \in TargetVolumes} : ChangeTargetVolume(vol)
    \/ AddVolumeNext
    \/ \E id \in OneSnapId :
          \E rewritten \in SUBSET Rewritable(id) :
              \E failAt \in 0 .. BackupCalls(id, DEFAULT_BLOCK_SIZE, rewritten) :
                  DoBackupRecorded(id, DEFAULT_BLOCK_SIZE, rewritten, failAt)
    \/ \E id \in FewSnapIds :
          \E failAt \in 0 .. RestoreCmdCalls(id) : CmdSnapshotRestore(id, failAt)
    \/ Return

RestoreCmdSpec == StoreInit /\ [][RestoreCmdNext]_vars

----------------------------------------------------------------------------
(* The storage driver: state and actions.  The daemon serves the volume and  *)
(* snapshot requests one at a time; each reader is a BackupSnapshot that     *)
(* opens a snapshot, reads it and closes it (blockstore.go:273-284).  Uuids  *)
(* are generated by the caller, so a create names a uuid never used before   *)
(* or, as a caller's mistake, one that exists.                               *)

DriverNow ==
    DrvCtx(volumes, deviceCfg, IF daemon = <<>> THEN 0 ELSE daemon[1].LastDevID,
           thinDevs, dmDevs)

\* what a driver call leaves behind
DriverDoneSized(op, id, vol, size, st) ==
    /\ volumes' = st.volumes
    /\ deviceCfg' = st.cfg
    /\ daemon' = IF daemon = <<>> THEN daemon ELSE <<Device(st.LastDevID)>>
    /\ thinDevs' = st.thin
    /\ dmDevs' = st.dm
    /\ issued' = IF st.devID = 0 THEN issued ELSE issued \cup {st.devID}
    /\ drvCall' = [DriverCall(op, id, vol, st) EXCEPT !.size = size]
    /\ UNCHANGED exceptDriver

DriverDone(op, id, vol, st) == DriverDoneSized(op, id, vol, 0, st)

SnapshotsOf(vol) == IF vol \in DOMAIN volumes THEN DOMAIN volumes[vol].Snapshots ELSE {}

DoCreateVolume(id, size, failAt, rollbackFails) ==
    /\ daemon # <<>>
    /\ id \notin usedIds \/ id \in DOMAIN volumes
    /\ DriverDoneSized("CreateVolume", id, id, size,
                       DriverCreateVolume(DriverNow, id, size, failAt, rollbackFails))
    /\ usedIds' = usedIds \cup {id}
    /\ UNCHANGED session

DoDeleteVolume(id, order, failAt) ==
    /\ daemon # <<>>
    /\ DriverDone("DeleteVolume", id, id,
                  DriverDeleteVolume(DriverNow, id, order, failAt))
    /\ UNCHANGED <<session, usedIds>>

DoCreateSnapshot(id, vol, failAt) ==
    /\ daemon # <<>>
    /\ id \notin usedIds \/ id \in SnapshotsOf(vol)
    /\ DriverDone("CreateSnapshot", id, vol,
                  DriverCreateSnapshot(DriverNow, id, vol, failAt))
    /\ usedIds' = usedIds \cup {id}
    /\ UNCHANGED session

DoDeleteSnapshot(id, vol, failAt) ==
    /\ daemon # <<>>
    /\ DriverDone("DeleteSnapshot", id, vol,
                  DriverDeleteSnapshot(DriverNow, id, vol, failAt))
    /\ UNCHANGED <<session, usedIds>>

\* a reader begins its backup: the snapshot is its own once opened
DoOpenSnapshot(r, id, vol, failAt) ==
    \E st \in {DriverOpenSnapshot(DriverNow, id, vol, failAt)} :
        /\ session[r] = <<>>
        /\ DriverDone("OpenSnapshot", id, vol, st)
        /\ session' = IF st.err THEN session
                      ELSE [session EXCEPT ![r] = <<[id |-> id, vol |-> vol]>>]
        /\ UNCHANGED usedIds

DoReadSnapshot(r, failAt) ==
    /\ session[r] # <<>>
    /\ DriverDone("ReadSnapshot", session[r][1].id, session[r][1].vol,
                  DriverReadSnapshot(DriverNow, session[r][1].id,
                                     session[r][1].vol, failAt))
    /\ UNCHANGED <<session, usedIds>>

\* the deferred CloseSnapshot ends the backup whatever it returns
DoCloseSnapshot(r, failAt) ==
    /\ session[r] # <<>>
    /\ DriverDone("CloseSnapshot", session[r][1].id, session[r][1].vol,
                  DriverCloseSnapshot(DriverNow, session[r][1].id,
                                      session[r][1].vol, failAt))
    /\ session' = [session EXCEPT ![r] = <<>>]
    /\ UNCHANGED usedIds

\* the daemon is stopped and started again: Init reloads the driver config
DoRestart(failAt) ==
    \E st \in {DriverInit(DriverNow, failAt)} :
        /\ daemon' = IF st.err THEN <<>> ELSE <<Device(st.LastDevID)>>
        /\ drvCall' = DriverCall("Init", "", "", st)
        /\ UNCHANGED <<volumes, deviceCfg, thinDevs, dmDevs, issued, session,
                       usedIds, exceptDriver>>

DeleteOrders(id) == Perms(SnapshotsOf(id))

VolumeNext(vols, sizes) ==
    \/ \E id \in vols, size \in sizes, rollbackFails \in BOOLEAN :
          \E failAt \in 0 .. DriverCreateVolume(DriverNow, id, size, 0, FALSE).n :
             DoCreateVolume(id, size, failAt, rollbackFails)
    \/ \E id \in vols : \E order \in DeleteOrders(id) :
          \E failAt \in 0 .. DriverDeleteVolume(DriverNow, id, order, 0).n :
             DoDeleteVolume(id, order, failAt)

SnapshotNext(snaps, vols) ==
    \/ \E id \in snaps, vol \in vols :
          \E failAt \in 0 .. DriverCreateSnapshot(DriverNow, id, vol, 0).n :
             DoCreateSnapshot(id, vol, failAt)
    \/ \E id \in snaps, vol \in vols :
          \E failAt \in 0 .. DriverDeleteSnapshot(DriverNow, id, vol, 0).n :
             DoDeleteSnapshot(id, vol, failAt)

ReaderNext(snaps, vols) ==
    \/ \E r \in Readers, id \in snaps, vol \in vols :
          \E failAt \in 0 .. DriverOpenSnapshot(DriverNow, id, vol, 0).n :
             DoOpenSnapshot(r, id, vol, failAt)
    \/ \E r \in Readers : \E failAt \in 0 .. 2 : DoReadSnapshot(r, failAt)
    \/ \E r \in Readers : \E failAt \in 0 .. 4 : DoCloseSnapshot(r, failAt)

(* Device ids: volumes and snapshots created and deleted in any order, the   *)
(* daemon restarted in between, every call failing or not                    *)
DriverNext ==
    \/ VolumeNext(VolumeIds, {Min(DriverSizes \ {SECTOR_SIZE})})
    \/ SnapshotNext(FewSnapshotIds, VolumeIds)
    \/ \E failAt \in 0 .. 1 : DoRestart(failAt)

DriverSpec == RegInit /\ [][DriverNext]_vars

\* the daemon stops; with a reboot of the host the kernel's devices and the
\* pool device are gone, the pool's metadata and the files stay
Halt(reboot) ==
    /\ daemon # <<>>
    /\ daemon' = <<>>
    /\ dmDevs' = IF reboot THEN EmptyFn ELSE dmDevs
    /\ poolUp' = (poolUp /\ ~reboot)
    /\ drvCall' = [DriverIdle EXCEPT !.op = "Halt"]
    /\ UNCHANGED <<volumes, deviceCfg, thinDevs, issued, session, usedIds,
                   exceptPool>>

\* the daemon starts: Init finds the driver config
DoInit(ids, findFails, failAt) ==
    \E got \in {InitFromConfig(DriverNow, poolUp, ids, findFails, failAt)} :
        /\ daemon = <<>>
        /\ daemon' = IF got.st.err THEN <<>> ELSE <<Device(got.st.LastDevID)>>
        /\ dmDevs' = got.st.dm
        /\ poolUp' = got.up
        /\ drvCall' = DriverCall("Init", "", "", got.st)
        /\ UNCHANGED <<volumes, deviceCfg, thinDevs, issued, session, usedIds,
                       exceptPool>>

(* Restarts: volumes created and deleted, the daemon stopped with or without *)
(* a reboot of the host and started again, every call failing or not         *)
BootNext ==
    \/ VolumeNext(VolumeIds, {Min(DriverSizes \ {SECTOR_SIZE})})
    \/ \E reboot \in BOOLEAN : Halt(reboot)
    \/ \E ids \in Perms(DOMAIN volumes), findFails \in BOOLEAN :
          \E failAt \in 0 .. InitFromConfig(DriverNow, poolUp, ids, FALSE, 0).st.n :
             DoInit(ids, findFails, failAt)

BootSpec == RegInit /\ [][BootNext]_vars

(* Readers: the snapshots of one volume, opened, read and closed by the      *)
(* backups of several readers, every call failing or not                     *)
ReaderNext1 ==
    \/ VolumeNext(FewVolumeIds, DriverSizes)
    \/ SnapshotNext(SnapshotIds, FewVolumeIds)
    \/ ReaderNext(SnapshotIds, FewVolumeIds)

ReaderSpec == RegInit /\ [][ReaderNext1]_vars

----------------------------------------------------------------------------
(* The daemons of one root: state and actions *)

LockNow == LockFs(lockPath, lockFd, inodes)

LockDone(fs) ==
    /\ lockPath' = fs.path
    /\ lockFd' = fs.fd
    /\ inodes' = fs.made
    /\ UNCHANGED exceptLock

DaemonStart(p, createFails, initFails) ==
    \E fs \in {Start(LockNow, p, createFails, initFails)} :
        /\ p \notin running
        /\ fs.made <= MaxInodes
        /\ LockDone(fs)
        /\ running' = IF fs.err THEN running ELSE running \cup {p}

\* the daemon is told to stop: Start returns, the cleanup runs, the process ends
DaemonShutdown(p) ==
    /\ p \in running
    /\ LockDone(ProcessExit(environmentCleanup(LockNow, p), p))
    /\ running' = running \ {p}

\* the garbage collector finds the os.File of LockFile unreachable and its
\* finalizer closes the descriptor
Finalizer(p) ==
    /\ p \in running
    /\ lockFd[p] # <<>>
    /\ LockDone(ProcessExit(LockNow, p))
    /\ UNCHANGED running

LockNext ==
    \/ \E p \in Daemons, createFails, initFails \in BOOLEAN :
          DaemonStart(p, createFails, initFails)
    \/ \E p \in Daemons : DaemonShutdown(p)
    \/ \E p \in Daemons : Finalizer(p)

LockSpec == RegInit /\ [][LockNext]_vars

----------------------------------------------------------------------------
(* The daemon's handlers: state and actions *)

\* a request arrives and its handler starts
Serve(h, kind) ==
    /\ handlers[h].pc = "idle"
    /\ handlers' = [handlers EXCEPT ![h] = Handler(kind, "lock", @.failed)]
    /\ UNCHANGED <<GlobalLock, exceptServer>>

\* s.GlobalLock.Lock() returns
HandlerLock(h) ==
    /\ handlers[h].pc = "lock"
    /\ handlers[h].kind \in Mutating
    /\ CanLock(GlobalLock)
    /\ GlobalLock' = Lock(GlobalLock, h)
    /\ handlers' = [handlers EXCEPT ![h].pc = "decode"]
    /\ UNCHANGED exceptServer

\* s.GlobalLock.RLock() returns
HandlerRLock(h) ==
    /\ handlers[h].pc = "lock"
    /\ handlers[h].kind \in Reading
    /\ CanRLock(GlobalLock)
    /\ GlobalLock' = RLock(GlobalLock, h)
    /\ handlers' = [handlers EXCEPT ![h].pc = "decode"]
    /\ UNCHANGED exceptServer

\* one part of the body is done without error
HandlerStep(h) ==
    /\ handlers[h].pc \in {"decode", "process"}
    /\ handlers' = [handlers EXCEPT
                       ![h].pc = IF @ = "decode" THEN "process" ELSE "respond"]
    /\ UNCHANGED <<GlobalLock, exceptServer>>

\* the handler returns, with an error from any part of its body or with the
\* response written; the deferred Unlock or RUnlock runs
HandlerReturn(h, failed) ==
    /\ InBody(handlers[h])
    /\ GlobalLock' = IF handlers[h].kind \in Mutating THEN Unlock(GlobalLock, h)
                     ELSE RUnlock(GlobalLock, h)
    /\ handlers' = [handlers EXCEPT ![h] = Handler("", "idle", failed)]
    /\ UNCHANGED exceptServer

ServerNext ==
    \/ \E h \in Handlers, kind \in Mutating \cup Reading : Serve(h, kind)
    \/ \E h \in Handlers : HandlerLock(h)
    \/ \E h \in Handlers : HandlerRLock(h)
    \/ \E h \in Handlers : HandlerStep(h)
    \/ \E h \in Handlers, failed \in BOOLEAN : HandlerReturn(h, failed)

ServerSpec == RegInit /\ [][ServerNext]_vars

\* the handlers that work on NameUUIDIndex and UUIDIndex: a create looks the
\* name up and adds the name and the uuid, a delete deletes them, and the
\* uuid lookup reads both
IndexWriters == {"doVolumeCreate", "doVolumeDelete"}
IndexReaders == {"doRequestUUID"}

\* doRequestUUID goes into its body without a call on GlobalLock
HandlerNoLock(h) ==
    /\ handlers[h].pc = "lock"
    /\ handlers[h].kind = "doRequestUUID"
    /\ handlers' = [handlers EXCEPT ![h].pc = "decode"]
    /\ UNCHANGED <<GlobalLock, exceptServer>>

\* doRequestUUID returns: no Unlock is deferred
LookupReturn(h, failed) ==
    /\ InBody(handlers[h])
    /\ handlers[h].kind = "doRequestUUID"
    /\ handlers' = [handlers EXCEPT ![h] = Handler("", "idle", failed)]
    /\ UNCHANGED <<GlobalLock, exceptServer>>

(* The handlers of the indexes and a list handler, on three goroutines *)
IndexNext ==
    \/ \E h \in Handlers, kind \in IndexWriters \cup IndexReaders \cup {"doVolumeList"} :
          Serve(h, kind)
    \/ \E h \in Handlers : HandlerLock(h)
    \/ \E h \in Handlers : HandlerRLock(h)
    \/ \E h \in Handlers : HandlerNoLock(h)
    \/ \E h \in Handlers : HandlerStep(h)
    \/ \E h \in {x \in Handlers : handlers[x].kind \in Mutating \cup Reading},
          failed \in BOOLEAN : HandlerReturn(h, failed)
    \/ \E h \in Handlers, failed \in BOOLEAN : LookupReturn(h, failed)

IndexSpec == RegInit /\ [][IndexNext]_vars

----------------------------------------------------------------------------
(* Volume creation at the server (processVolumeCreate): the driver's volume, *)
(* the restore of a backup when one is named, the server's volume file and   *)
(* the two indexes                                                           *)

VolumeNames == {"", "n1"}
BackupURLs == {"", "b1"}

ServerVolume(uuid, name, size) == [UUID |-> uuid, Name |-> name, Size |-> size]

\* what processVolumeCreate leaves; made tells whether the driver's
\* CreateVolume returned without error
Created(st, recs, names, uuids, made) ==
    [st |-> st, recs |-> recs, names |-> names, uuids |-> uuids, created |-> made]

\* <<>> for nil
loadVolumeByName(recs, names, name) ==
    IF name \notin DOMAIN names THEN <<>>
    ELSE IF names[name] \notin DOMAIN recs THEN <<>>
    ELSE <<recs[names[name]]>>

\* s.saveVolume after util.SaveConfig returned sv: the name goes into
\* NameUUIDIndex when there is one
VolumeFileSaved(sv, recs, names, volume, failAt) ==
    IF sv.st.err
    THEN [st |-> sv.st, names |-> names,
          recs |-> IF sv.file = <<>> THEN Drop(recs, volume.UUID) ELSE recs]
    ELSE IF volume.Name = ""
    THEN [st |-> sv.st, names |-> names, recs |-> Put(recs, volume.UUID, volume)]
    ELSE IF Fails(sv.st, failAt)
    THEN [st |-> Failed(sv.st), names |-> names, recs |-> Put(recs, volume.UUID, volume)]
    ELSE [st |-> Pass(sv.st), names |-> Put(names, volume.Name, volume.UUID),
          recs |-> Put(recs, volume.UUID, volume)]

ServerSaveVolume(st, recs, names, volume, failAt) ==
    VolumeFileSaved(SaveConfig(st, IF volume.UUID \in DOMAIN recs
                                   THEN <<recs[volume.UUID]>> ELSE <<>>,
                               volume, failAt),
                    recs, names, volume, failAt)

\* after s.saveVolume returned sv: UUIDIndex.Add
VolumeIndexed(sv, uuids, uuid, failAt) ==
    IF sv.st.err THEN Created(sv.st, sv.recs, sv.names, uuids, TRUE)
    ELSE IF Fails(sv.st, failAt)
    THEN Created(Failed(sv.st), sv.recs, sv.names, uuids, TRUE)
    ELSE Created(Pass(sv.st), sv.recs, sv.names, uuids \cup {uuid}, TRUE)

\* after objectstore.RestoreBackup returned rs, or after CreateVolume when
\* no backup is named: an error is returned as it is
VolumeRestored(rs, recs, names, uuids, volumeName, uuid, size, failAt) ==
    IF rs.err THEN Created(rs, recs, names, uuids, TRUE)
    ELSE VolumeIndexed(ServerSaveVolume(rs, recs, names,
                                        ServerVolume(uuid, volumeName, size), failAt),
                       uuids, uuid, failAt)

\* after the driver's CreateVolume returned cv
VolumeMade(cv, recs, names, uuids, volumeName, uuid, size, backupURL, failAt) ==
    IF cv.err THEN Created(cv, recs, names, uuids, FALSE)
    ELSE VolumeRestored(IF backupURL # "" THEN Try(cv, failAt) ELSE cv,
                        recs, names, uuids, volumeName, uuid, size, failAt)

\* after objectstore.LoadVolume returned ld, when a backup is named
BackupLoaded(ld, recs, names, uuids, volumeName, uuid, size, backupURL, failAt, rollbackFails) ==
    IF ld.err THEN Created(ld, recs, names, uuids, FALSE)
    ELSE VolumeMade(DriverCreateVolume(ld, uuid, size, failAt, rollbackFails),
                    recs, names, uuids, volumeName, uuid, size, backupURL, failAt)

\* the same call with the driver's volume deleted when a later step fails
processVolumeCreateUndone(st0, recs, names, uuids, volumeName, uuid, size, backupURL, failAt, rollbackFails) ==
    IF loadVolumeByName(recs, names, volumeName) # <<>>
    THEN Created(Error(st0), recs, names, uuids, FALSE)
    ELSE LET got == BackupLoaded(IF backupURL # "" THEN Try(st0, failAt) ELSE st0,
                                 recs, names, uuids, volumeName, uuid, size, backupURL,
                                 failAt, rollbackFails)
         IN  IF got.st.err /\ got.created
             THEN Created(Error(DriverDeleteVolume([got.st EXCEPT !.err = FALSE],
                                                   uuid, <<>>, 0)),
                          got.recs, got.names, got.uuids, TRUE)
             ELSE got

processVolumeCreate(st0, recs, names, uuids, volumeName, uuid, size, backupURL, failAt, rollbackFails) ==
    IF loadVolumeByName(recs, names, volumeName) # <<>>
    THEN Created(Error(st0), recs, names, uuids, FALSE)
    ELSE BackupLoaded(IF backupURL # "" THEN Try(st0, failAt) ELSE st0,
                      recs, names, uuids, volumeName, uuid, size, backupURL,
                      failAt, rollbackFails)

NoteCreated(call, made) == call @@ [created |-> made]

\* a create request under GlobalLock: the uuid is fresh from uuid.New()
DoVolumeCreate(volumeName, uuid, size, backupURL, failAt, rollbackFails) ==
    \E got \in {processVolumeCreate(DriverNow, srvVolumes, NameUUIDIndex, UUIDIndex,
                                     volumeName, uuid, size, backupURL, failAt,
                                     rollbackFails)} :
        /\ daemon # <<>>
        /\ uuid \notin usedIds
        /\ volumes' = got.st.volumes
        /\ deviceCfg' = got.st.cfg
        /\ daemon' = <<Device(got.st.LastDevID)>>
        /\ thinDevs' = got.st.thin
        /\ dmDevs' = got.st.dm
        /\ issued' = IF got.st.devID = 0 THEN issued ELSE issued \cup {got.st.devID}
        /\ srvVolumes' = got.recs
        /\ NameUUIDIndex' = got.names
        /\ UUIDIndex' = got.uuids
        /\ usedIds' = usedIds \cup {uuid}
        /\ drvCall' = NoteCreated(DriverCall("VolumeCreate", uuid, volumeName, got.st),
                                  got.created)
        /\ UNCHANGED <<session, engineVars, lockVars, serverVars, saveVars, poolVars,
                       imageVars, cmdVars, mergeVars, originVars, waitVars>>

CreateNext ==
    \E volumeName \in VolumeNames, uuid \in VolumeIds, backupURL \in BackupURLs,
       rollbackFails \in BOOLEAN :
        \E failAt \in 0 .. processVolumeCreate(DriverNow, srvVolumes, NameUUIDIndex,
                                                UUIDIndex, volumeName, uuid,
                                                Min(DriverSizes \ {SECTOR_SIZE}),
                                                backupURL, 0, FALSE).st.n :
            DoVolumeCreate(volumeName, uuid, Min(DriverSizes \ {SECTOR_SIZE}),
                           backupURL, failAt, rollbackFails)

CreateSpec == RegInit /\ [][CreateNext]_vars

----------------------------------------------------------------------------
(* waitForServices: the polling loop, one GetLink per turn                   *)

RETRY_MAX == 20
MaxServices == 2
ServiceStates == {"active", "inactive"}
\* what a poll can show: the services of the environment, each in a state
ServiceLists == UNION {[1 .. k -> ServiceStates] : k \in 0 .. MaxServices}

\* the loop body's test without the comparison of len(services)
ServicesReadyAnyCount(services, targetServiceCount, targetState) ==
    \A k \in DOMAIN services : services[k] = targetState

\* the loop body's test: neither continue is taken
ServicesReady(services, targetServiceCount, targetState) ==
    /\ Len(services) = targetServiceCount
    /\ ~ \E k \in DOMAIN services : services[k] # targetState

\* the call: ready := false, i := 0
StartWait(targetServiceCount, targetState) ==
    /\ waitCall.pc = "idle"
    /\ waitCall' = [pc |-> "loop", i |-> 0, ready |-> FALSE, result |-> "", polls |-> 0,
                    count |-> targetServiceCount, state |-> targetState,
                    seen |-> NoPoll]
    /\ UNCHANGED <<session, engineVars, driverVars, lockVars, serverVars, saveVars,
                   poolVars, imageVars, cmdVars, mergeVars, originVars, indexVars>>

\* one turn of the loop: Sleep, GetLink, the two tests, i++
Poll(failed, services) ==
    /\ waitCall.pc = "loop"
    /\ ~waitCall.ready
    /\ waitCall.i < RETRY_MAX
    /\ waitCall' =
         IF failed
         THEN [waitCall EXCEPT !.pc = "done", !.result = "error",
                               !.polls = @ + 1,
                               !.seen = [err |-> TRUE, services |-> <<>>]]
         ELSE [waitCall EXCEPT !.i = @ + 1, !.polls = @ + 1,
                               !.ready = ServicesReady(services, waitCall.count,
                                                       waitCall.state),
                               !.seen = [err |-> FALSE, services |-> services]]
    /\ UNCHANGED <<session, engineVars, driverVars, lockVars, serverVars, saveVars,
                   poolVars, imageVars, cmdVars, mergeVars, originVars, indexVars>>

\* the loop condition is false: the return after the loop
LeaveLoop ==
    /\ waitCall.pc = "loop"
    /\ waitCall.ready \/ waitCall.i >= RETRY_MAX
    /\ waitCall' = [waitCall EXCEPT !.pc = "done",
                                    !.result = IF waitCall.ready THEN "ok" ELSE "timeout"]
    /\ UNCHANGED <<session, engineVars, driverVars, lockVars, serverVars, saveVars,
                   poolVars, imageVars, cmdVars, mergeVars, originVars, indexVars>>

\* the caller goes on and may call again
WaitReturned ==
    /\ waitCall.pc = "done"
    /\ waitCall' = [waitCall EXCEPT !.pc = "idle"]
    /\ UNCHANGED <<session, engineVars, driverVars, lockVars, serverVars, saveVars,
                   poolVars, imageVars, cmdVars, mergeVars, originVars, indexVars>>

PollNext == \E failed \in BOOLEAN, services \in ServiceLists : Poll(failed, services)

WaitNext ==
    \/ \E targetServiceCount \in 0 .. MaxServices, targetState \in ServiceStates :
           StartWait(targetServiceCount, targetState)
    \/ PollNext
    \/ LeaveLoop
    \/ WaitReturned

\* the loop runs in the calling goroutine: a turn that can be taken is taken,
\* GetLink returning in every turn
WaitSpec ==
    /\ RegInit /\ [][WaitNext]_vars
    /\ WF_vars(PollNext) /\ WF_vars(LeaveLoop)

----------------------------------------------------------------------------
(* SaveConfig: state and actions *)

\* the call returns; old is kept to tell what the call started from
SaveReturn == [save EXCEPT !.pc = "idle"]

\* the call returns an error, or never returns
SaveFailed == [save EXCEPT !.pc = "failed"]

SaveDone == save.pc \in {"idle", "failed"}

\* os.Create(tmpFileName) truncates or creates the temporary file
SaveCreate(v, fails) ==
    /\ SaveDone
    /\ IF fails
       THEN /\ save' = Saving("failed", v, cfgFile)
            /\ UNCHANGED tmpFile
       ELSE /\ save' = Saving("write", v, cfgFile)
            /\ tmpFile' = <<File(v, FALSE)>>
    /\ cfgLoaded' = NotLoaded
    /\ UNCHANGED <<cfgFile, exceptSave>>

\* f.Write(j)
SaveWrite(fails) ==
    /\ save.pc = "write"
    /\ IF fails
       THEN /\ save' = SaveFailed
            /\ UNCHANGED tmpFile
       ELSE /\ save' = [save EXCEPT !.pc = "remove"]
            /\ tmpFile' = <<File(save.v, TRUE)>>
    /\ UNCHANGED <<cfgFile, cfgLoaded, exceptSave>>

\* os.Stat(fileName) and, when the file is there, os.Remove(fileName)
SaveRemove(fails) ==
    /\ save.pc = "remove"
    /\ IF cfgFile = <<>>
       THEN /\ save' = [save EXCEPT !.pc = "rename"]
            /\ UNCHANGED cfgFile
       ELSE IF fails
       THEN /\ save' = SaveFailed
            /\ UNCHANGED cfgFile
       ELSE /\ save' = [save EXCEPT !.pc = "rename"]
            /\ cfgFile' = <<>>
    /\ UNCHANGED <<tmpFile, cfgLoaded, exceptSave>>

\* os.Rename(tmpFileName, fileName)
SaveRename(fails) ==
    /\ save.pc = "rename"
    /\ save' = IF fails THEN SaveFailed ELSE SaveReturn
    /\ IF fails
       THEN UNCHANGED <<cfgFile, tmpFile>>
       ELSE /\ cfgFile' = tmpFile
            /\ tmpFile' = <<>>
    /\ UNCHANGED <<cfgLoaded, exceptSave>>

\* the process dies inside the call; the files stay as they are
Crash ==
    /\ ~SaveDone
    /\ save' = SaveFailed
    /\ UNCHANGED <<cfgFile, tmpFile, cfgLoaded, exceptSave>>

\* LoadConfig of the final file, between two calls of SaveConfig
Load ==
    /\ SaveDone
    /\ cfgLoaded' = LoadConfig(cfgFile)
    /\ UNCHANGED <<cfgFile, tmpFile, save, exceptSave>>

SaveNext ==
    \/ \E v \in Configs, fails \in BOOLEAN : SaveCreate(v, fails)
    \/ \E fails \in BOOLEAN : SaveWrite(fails)
    \/ \E fails \in BOOLEAN : SaveRemove(fails)
    \/ \E fails \in BOOLEAN : SaveRename(fails)
    \/ Crash
    \/ Load

SaveSpec == RegInit /\ [][SaveNext]_vars

----------------------------------------------------------------------------
(* Base imageCfg: state and actions *)

\* what a driver call that works on imageCfg leaves behind
ImageDone(op, id, vol, got) ==
    /\ volumes' = got.st.volumes
    /\ deviceCfg' = got.st.cfg
    /\ daemon' = <<Device(got.st.LastDevID)>>
    /\ thinDevs' = got.st.thin
    /\ dmDevs' = got.st.dm
    /\ issued' = IF got.st.devID = 0 THEN issued ELSE issued \cup {got.st.devID}
    /\ imageCfg' = got.images
    /\ loopDevs' = got.loops
    /\ drvCall' = DriverCall(op, id, vol, got.st)
    /\ UNCHANGED <<session, exceptImage>>

DoActivateImage(imageUUID, size, failAt) ==
    /\ daemon # <<>>
    /\ imageUUID \notin usedIds \/ imageUUID \in DOMAIN imageCfg
    /\ ImageDone("ActivateImage", imageUUID, "",
                 DriverActivateImage(DriverNow, imageCfg, loopDevs, imageUUID, size, failAt))
    /\ usedIds' = usedIds \cup {imageUUID}

DoDeactivateImage(imageUUID, failAt) ==
    /\ daemon # <<>>
    /\ ImageDone("DeactivateImage", imageUUID, "",
                 DriverDeactivateImage(DriverNow, imageCfg, loopDevs, imageUUID, failAt))
    /\ UNCHANGED usedIds

DoCreateVolumeOnBase(id, baseID, size, failAt, rollbackFails) ==
    /\ daemon # <<>>
    /\ id \notin usedIds \/ id \in DOMAIN volumes
    /\ ImageDone("CreateVolume", id, baseID,
                 CreateVolumeOnBase(DriverNow, imageCfg, loopDevs, id, baseID, size,
                                    failAt, rollbackFails))
    /\ usedIds' = usedIds \cup {id}

DoDeleteVolumeOnBase(id, failAt) ==
    /\ daemon # <<>>
    /\ ImageDone("DeleteVolume", id, "",
                 ImageCall(DeleteVolumeOnBase(DriverNow, imageCfg, id, <<>>, failAt),
                           imageCfg, loopDevs))
    /\ UNCHANGED usedIds

(* Images: an image activated and deactivated, volumes created on it or on   *)
(* nothing and deleted, every call failing or not                            *)
ImageNext ==
    \/ \E i \in ImageIds, size \in DriverSizes :
          \E failAt \in 0 .. DriverActivateImage(DriverNow, imageCfg, loopDevs, i, size, 0).st.n :
             DoActivateImage(i, size, failAt)
    \/ \E i \in ImageIds :
          \E failAt \in 0 .. DriverDeactivateImage(DriverNow, imageCfg, loopDevs, i, 0).st.n :
             DoDeactivateImage(i, failAt)
    \/ \E id \in VolumeIds, baseID \in ImageIds \cup {""}, rollbackFails \in BOOLEAN :
          \E failAt \in 0 .. CreateVolumeOnBase(DriverNow, imageCfg, loopDevs, id, baseID,
                                                Min(DriverSizes \ {SECTOR_SIZE}),
                                                0, FALSE).st.n :
             DoCreateVolumeOnBase(id, baseID, Min(DriverSizes \ {SECTOR_SIZE}),
                                  failAt, rollbackFails)
    \/ \E id \in VolumeIds :
          \E failAt \in 0 .. DeleteVolumeOnBase(DriverNow, imageCfg, id, <<>>, 0).n :
             DoDeleteVolumeOnBase(id, failAt)

ImageSpec == RegInit /\ [][ImageNext]_vars

\* the volume's device as CreateVolume activates it (devmapper.go:348-352):
\* ActivateDevice without an image, ActivateDeviceWithExternal on the image's
\* device with one; origins tells which kernel devices have an origin
VolumeOrigins(origins, dmBefore, dmAfter, id, baseID) ==
    IF baseID # "" /\ id \notin DOMAIN dmBefore /\ id \in DOMAIN dmAfter
    THEN Put(origins, id, baseID)
    ELSE origins

DoCreateVolumeWithOrigin(id, baseID, size, failAt, rollbackFails) ==
    \E got \in {CreateVolumeOnBase(DriverNow, imageCfg, loopDevs, id, baseID, size,
                                    failAt, rollbackFails)} :
        /\ daemon # <<>>
        /\ id \notin usedIds \/ id \in DOMAIN volumes
        /\ volumes' = got.st.volumes
        /\ deviceCfg' = got.st.cfg
        /\ daemon' = <<Device(got.st.LastDevID)>>
        /\ thinDevs' = got.st.thin
        /\ dmDevs' = got.st.dm
        /\ dmOrigin' = VolumeOrigins(dmOrigin, dmDevs, got.st.dm, id, baseID)
        /\ issued' = IF got.st.devID = 0 THEN issued ELSE issued \cup {got.st.devID}
        /\ imageCfg' = got.images
        /\ loopDevs' = got.loops
        /\ drvCall' = DriverCall("CreateVolume", id, baseID, got.st)
        /\ usedIds' = usedIds \cup {id}
        /\ UNCHANGED <<session, engineVars, lockVars, serverVars, saveVars, poolVars,
                       cmdVars, mergeVars, indexVars, waitVars>>

\* the daemon stops; with a reboot of the host the kernel's devices, their
\* origins, the loopback devices and the pool device are gone
HaltHost(reboot) ==
    /\ daemon # <<>>
    /\ daemon' = <<>>
    /\ dmDevs' = IF reboot THEN EmptyFn ELSE dmDevs
    /\ dmOrigin' = IF reboot THEN EmptyFn ELSE dmOrigin
    /\ loopDevs' = IF reboot THEN {} ELSE loopDevs
    /\ poolUp' = (poolUp /\ ~reboot)
    /\ drvCall' = [DriverIdle EXCEPT !.op = "Halt"]
    /\ UNCHANGED <<volumes, deviceCfg, thinDevs, issued, session, usedIds, imageCfg,
                   engineVars, lockVars, serverVars, saveVars, cmdVars, mergeVars,
                   indexVars, waitVars>>

(* Restarts with images: an image activated, volumes created on it or on     *)
(* nothing, the daemon stopped with or without a reboot and started again    *)
BaseBootNext ==
    \/ \E i \in ImageIds :
          \E failAt \in 0 .. DriverActivateImage(DriverNow, imageCfg, loopDevs, i,
                                                 Min(DriverSizes \ {SECTOR_SIZE}), 0).st.n :
             DoActivateImage(i, Min(DriverSizes \ {SECTOR_SIZE}), failAt)
    \/ \E id \in VolumeIds, baseID \in ImageIds \cup {""}, rollbackFails \in BOOLEAN :
          \E failAt \in 0 .. CreateVolumeOnBase(DriverNow, imageCfg, loopDevs, id, baseID,
                                                Min(DriverSizes \ {SECTOR_SIZE}),
                                                0, FALSE).st.n :
             DoCreateVolumeWithOrigin(id, baseID, Min(DriverSizes \ {SECTOR_SIZE}),
                                      failAt, rollbackFails)
    \/ \E reboot \in BOOLEAN : HaltHost(reboot)
    \/ \E ids \in Perms(DOMAIN volumes), findFails \in BOOLEAN :
          \E failAt \in 0 .. InitFromConfig(DriverNow, poolUp, ids, FALSE, 0).st.n :
             DoInit(ids, findFails, failAt)

BaseBootSpec == RegInit /\ [][BaseBootNext]_vars

----------------------------------------------------------------------------
(* Properties *)

\* the checksums the stored SnapshotMaps reference
Referenced(maps) == UNION {ChecksumsOf(maps[s].Blocks) : s \in DOMAIN maps}

RemovedOk(call) == call.op = "RemoveSnapshot" /\ ~call.err

\* C1: every entry of every stored SnapshotMap has its block blob in the
\* volume's blocks directory, in every reachable state of the store
C1_MapBlocksPresent == Referenced(snapMaps) \subseteq DOMAIN blobs

\* C2: a RemoveSnapshot(S) that returns success deletes every blob that S's
\* map referenced and no surviving map references, and deletes no blob that
\* a surviving map references
C2_RemoveDeletesExactly ==
    [][RemovedOk(lastCall') =>
         LET candidate == ChecksumsOf(snapMaps[lastCall'.snap].Blocks)
             surviving == Referenced(snapMaps')
         IN  /\ \A c \in candidate \ surviving : c \notin DOMAIN blobs'
             /\ \A c \in surviving \cap DOMAIN blobs : c \in DOMAIN blobs']_vars

BackedUp(call) == call.op = "BackupSnapshot"

BackedUpOk(call) == BackedUp(call) /\ ~call.err

RestoredOk(call) == call.op = "RestoreSnapshot" /\ ~call.err

\* C4: the Blocks of every stored SnapshotMap have strictly increasing
\* offsets, each a multiple of the store's block size
C4_MapsSortedAligned ==
    \A s \in DOMAIN snapMaps :
        LET blocks == snapMaps[s].Blocks
        IN  /\ \A i \in DOMAIN blocks : blocks[i].Offset % DEFAULT_BLOCK_SIZE = 0
            /\ \A i, j \in DOMAIN blocks : i < j => blocks[i].Offset < blocks[j].Offset

\* an incremental backup has stored a map that merges delta and parent entries
C4_Witness ==
    /\ BackedUpOk(lastCall)
    /\ Len(lastCall.written) = 1
    /\ Len(snapMaps[lastCall.snap].Blocks) = MaxBlocks
    /\ \E s \in DOMAIN snapMaps : s # lastCall.snap

\* C5: after a successful restore of a snapshot that was backed up in full,
\* the target holds at every offset of the snapshot's map the bytes the
\* snapshot holds at that offset
C5_FullRoundTrip ==
    (/\ RestoredOk(lastCall)
     /\ HasSnapshot(lastCall.snap)
     /\ parentOf[lastCall.snap] = "")
    => \A o \in OffsetsOf(snapMaps[lastCall.snap].Blocks) :
           target[o \div DEFAULT_BLOCK_SIZE]
               = ReadSnapshot(lastCall.snap, o, DEFAULT_BLOCK_SIZE)

\* a full backup with a block that is not zero has been restored
C5_Witness ==
    /\ RestoredOk(lastCall)
    /\ HasSnapshot(lastCall.snap)
    /\ parentOf[lastCall.snap] = ""
    /\ Len(snapMaps[lastCall.snap].Blocks) = MaxBlocks
    /\ \E i \in BlockIdx : target[i] # ZeroBlock

\* what a full backup of snapshot id into an empty store of the volume,
\* restored to a new target, leaves on the target
FullBackupRestored(id) ==
    LET volume == [Size |-> VolumeSize, Base |-> "", LastSnapshotID |-> ""]
        full == BackupSnapshot(Ctx(EmptyFn, EmptyFn, <<volume>>), id,
                               DEFAULT_BLOCK_SIZE, {}, 0)
    IN  RestoreSnapshot(Ctx(full.blobs, full.snapMaps, full.volCfg),
                        ZeroDevice, id, 0).target

\* C6: a snapshot backed up incrementally and restored to a new target
\* leaves at every offset the bytes that its full backup, restored, leaves
C6_IncrementalAsFull ==
    [][(/\ RestoredOk(lastCall')
        /\ target = ZeroDevice
        /\ HasSnapshot(lastCall'.snap)
        /\ parentOf[lastCall'.snap] # "")
       => target' = FullBackupRestored(lastCall'.snap)]_vars

C10_MismatchWritesNothing ==
    [][(BackedUp(lastCall') /\ lastCall'.blockSize # DEFAULT_BLOCK_SIZE) =>
         /\ lastCall'.err
         /\ blobs' = blobs /\ snapMaps' = snapMaps /\ volCfg' = volCfg
         /\ lastCall'.written = <<>>
         /\ "open" \notin Range(lastCall'.trace)]_vars

\* the mismatch was reported for a snapshot the volume could have backed up
C10_Witness ==
    /\ BackedUp(lastCall) /\ lastCall.err
    /\ lastCall.blockSize # DEFAULT_BLOCK_SIZE
    /\ volCfg # <<>>
    /\ HasSnapshot(lastCall.snap)
    /\ lastCall.snap \notin DOMAIN snapMaps

RegisteredOk(call) == call.op = "Register" /\ ~call.err

\* C8: a Register that follows a successful Register of the same kind and
\* succeeds returns the same UUID and block size and leaves objectstore.cfg
\* as it was
C8_RegisterIdempotent ==
    [][(/\ RegisteredOk(lastCall)
        /\ RegisteredOk(lastCall')
        /\ lastCall'.kind = lastCall.kind)
       => /\ lastCall'.UUID = lastCall.UUID
          /\ lastCall'.BlockSize = lastCall.BlockSize
          /\ remoteCfg' = remoteCfg]_vars

\* C9: once objectstore.cfg is in the store no Register, of any kind and
\* outcome, changes the UUID or the BlockSize it holds
C9_RegisteredConfigKept ==
    [][(remoteCfg # <<>> /\ lastCall'.op = "Register")
       => /\ remoteCfg' # <<>>
          /\ remoteCfg'[1].UUID = remoteCfg[1].UUID
          /\ remoteCfg'[1].BlockSize = remoteCfg[1].BlockSize]_vars

C15_OpenCloseBracketed ==
    BackedUp(lastCall) =>
        LET t == lastCall.trace
            opened == {i \in DOMAIN t : t[i] = "open"}
            closed == {i \in DOMAIN t : t[i] = "close"}
        IN  /\ Cardinality(opened) <= 1
            /\ Cardinality(closed) = Cardinality(opened)
            /\ \A i \in opened : closed = {Len(t)}
            /\ \A j \in DOMAIN t :
                   t[j] \in {"read", "write", "saveMap", "saveVolume"} =>
                       \E i \in opened : i < j /\ j < Len(t)

\* a backup that failed after reading a block closed the snapshot it opened
C15_Witness ==
    /\ BackedUp(lastCall) /\ lastCall.err
    /\ "read" \in Range(lastCall.trace)
    /\ lastCall.trace[Len(lastCall.trace)] = "close"

\* C11: a DeleteVolume of a volume that still has a snapshot returns an
\* error and leaves the volume files (the volume with its snapshots) and
\* the thin devices of the pool as they were
C11_BusyVolumeKept ==
    [][(drvCall'.op = "DeleteVolume" /\ SnapshotsOf(drvCall'.id) # {}) =>
         /\ drvCall'.err
         /\ volumes' = volumes
         /\ thinDevs' = thinDevs]_vars

\* the volume and snapshot records on disk, and the device id each holds
DeviceRecords ==
    {<<v>> : v \in DOMAIN volumes}
        \cup {<<v, sn>> : v \in DOMAIN volumes, sn \in SnapshotIds}

DevIDOf(rec) ==
    IF Len(rec) = 1 THEN volumes[rec[1]].DevID
    ELSE IF rec[2] \in SnapshotsOf(rec[1]) THEN volumes[rec[1]].Snapshots[rec[2]].DevID
    ELSE 0

\* C12: the device ids of the volume and snapshot records on disk are
\* pairwise distinct, and each is less than the LastDevID of the driver
\* config on disk
C12_DevIDsDistinctBelowLast ==
    /\ \A a, b \in DeviceRecords :
           (a # b /\ DevIDOf(a) # 0) => DevIDOf(a) # DevIDOf(b)
    /\ \A a \in DeviceRecords :
           deviceCfg # <<>> => DevIDOf(a) < deviceCfg[1].LastDevID

\* C13: a CreateVolume that fails after creating its thin device leaves
\* LastDevID above the id it used, and no CreateVolume or CreateSnapshot
\* creates a thin device with an id that a device was created with before
C13_DeviceIdsNeverReused ==
    [][/\ (drvCall'.op = "CreateVolume" /\ drvCall'.err /\ drvCall'.devID # 0)
           => daemon'[1].LastDevID > drvCall'.devID
       /\ (drvCall'.op \in {"CreateVolume", "CreateSnapshot"} /\ drvCall'.devID # 0)
           => drvCall'.devID \notin issued]_vars

\* C16: the record on disk has Activated = TRUE after a successful
\* OpenSnapshot, FALSE after a successful CloseSnapshot and FALSE after a
\* successful CreateSnapshot
C16_ActivatedFollowsOpenClose ==
    [][(~drvCall'.err /\ drvCall'.op \in {"OpenSnapshot", "CloseSnapshot", "CreateSnapshot"})
       => /\ drvCall'.vol \in DOMAIN volumes'
          /\ drvCall'.id \in DOMAIN volumes'[drvCall'.vol].Snapshots
          /\ volumes'[drvCall'.vol].Snapshots[drvCall'.id].Activated
                 = (drvCall'.op = "OpenSnapshot")]_vars

\* the successful OpenSnapshot calls on a snapshot not yet followed by the
\* CloseSnapshot of their reader
OpenCount(id) ==
    Cardinality({r \in Readers : session[r] # <<>> /\ session[r][1].id = id})

C18_OneDaemonPerRoot == Cardinality(running) <= 1

\* C19: a state-mutating handler in its body holds GlobalLock as the only
\* holder, a list or inspect handler in its body holds it in shared mode
\* with no writer, so no mutating handler is in its body together with any
\* other handler; a handler outside its body (returned, with or without an
\* error, or not yet past its lock call) holds nothing
C19_HandlersHoldGlobalLock ==
    /\ \A h \in Handlers :
           IF InBody(handlers[h])
           THEN IF handlers[h].kind \in Mutating
                THEN GlobalLock = RWMutex(<<h>>, {})
                ELSE h \in GlobalLock.readers /\ GlobalLock.writer = <<>>
           ELSE GlobalLock.writer # <<h>> /\ h \notin GlobalLock.readers
    /\ \A h1, h2 \in Handlers :
           (/\ h1 # h2
            /\ InBody(handlers[h1]) /\ InBody(handlers[h2]))
           => {handlers[h1].kind, handlers[h2].kind} \subseteq Reading

\* a mutating handler works on the shared state while a second one, whose
\* last request returned an error, and a list handler wait for the lock
C19_Witness ==
    \E h1, h2, h3 \in Handlers :
        /\ handlers[h1].pc = "process" /\ handlers[h1].kind = "doVolumeCreate"
        /\ handlers[h2].pc = "lock" /\ handlers[h2].kind = "doSnapshotCreate"
        /\ handlers[h2].failed
        /\ handlers[h3].pc = "lock" /\ handlers[h3].kind = "doVolumeList"

\* C20: once SaveConfig has started over an existing config, at every point
\* of the call and after its return or a crash the final file is the whole
\* old content or the whole new content, never missing and never partial
C20_FinalFileOldOrNew ==
    save.old # <<>> => cfgFile \in {save.old, <<File(save.v, TRUE)>>}

\* C21: after SaveConfig calls on one config of which the most recent one
\* returned without error, LoadConfig returns without error the value that
\* call was given
C21_LoadYieldsLastSaved ==
    (cfgLoaded.op = "LoadConfig" /\ save.pc = "idle" /\ save.old # <<>>)
    => (~cfgLoaded.err /\ cfgLoaded.v = ConfigValue(save.v))

\* a config with two snapshots, saved over an older one and cfgLoaded
C21_Witness ==
    /\ cfgLoaded.op = "LoadConfig" /\ save.pc = "idle"
    /\ save.v = 3 /\ save.old = <<File(2, TRUE)>>
    /\ cfgLoaded.v.Snapshots["s1"].DevID = 100

\* C22: a RemoveSnapshot of S that returns without error leaves volume.cfg
\* with an empty LastSnapshotID when it named S and as it was otherwise; a
\* call that fails leaves volume.cfg as it was or, when it named S, cleared;
\* size and base never change
C22_LastSnapshotClearedIffRemoved ==
    [][(lastCall = Idle /\ lastCall'.op = "RemoveSnapshot")
       => IF volCfg = <<>> THEN volCfg' = <<>>
          ELSE IF volCfg[1].LastSnapshotID # lastCall'.snap THEN volCfg' = volCfg
          ELSE IF ~lastCall'.err
               THEN volCfg' = <<[volCfg[1] EXCEPT !.LastSnapshotID = ""]>>
          ELSE volCfg' \in {volCfg, <<[volCfg[1] EXCEPT !.LastSnapshotID = ""]>>}]_vars

\* the last snapshot backed up was removed and volume.cfg saved without it,
\* while the map of another snapshot stays in the store
C22_Witness ==
    /\ lastCall.op = "RemoveSnapshot" /\ ~lastCall.err
    /\ \E i \in DOMAIN lastCall.trace : lastCall.trace[i] = "saveVolume"
    /\ volCfg # <<>> /\ volCfg[1].LastSnapshotID = ""
    /\ DOMAIN snapMaps # {}

\* C23: a CreateVolume whose size is not a multiple of the thin-pool block
\* size in bytes returns an error and changes neither the volume records,
\* the driver config and LastDevID, nor the pool's and the kernel's devices
C23_BadSizeChangesNothing ==
    [][(/\ drvCall'.op = "CreateVolume"
        /\ drvCall'.size % (DEFAULT_THINPOOL_BLOCK_SIZE * SECTOR_SIZE) # 0)
       => /\ drvCall'.err
          /\ UNCHANGED <<volumes, deviceCfg, daemon, thinDevs, dmDevs>>]_vars

\* a volume of one sector was asked for while the pool holds a volume
C23_Witness ==
    /\ drvCall.op = "CreateVolume" /\ drvCall.size = SECTOR_SIZE /\ drvCall.err
    /\ drvCall.id \in DOMAIN volumes
    /\ thinDevs # {}

\* C24: a DeleteSnapshot that names a volume without a record, or a snapshot
\* that is not in the volume's record, returns an error and leaves the
\* records, the driver config and the devices as they were; so does a
\* second DeleteSnapshot of a snapshot that was deleted
C24_UnknownSnapshotRejected ==
    [][(/\ drvCall'.op = "DeleteSnapshot"
        /\ drvCall'.id \notin SnapshotsOf(drvCall'.vol))
       => /\ drvCall'.err
          /\ UNCHANGED <<volumes, deviceCfg, daemon, thinDevs, dmDevs>>]_vars

\* a snapshot that was created and deleted is deleted once more, its volume
\* still there
C24_Witness ==
    /\ drvCall.op = "DeleteSnapshot" /\ drvCall.err
    /\ drvCall.id \in usedIds
    /\ drvCall.vol \in DOMAIN volumes
    /\ drvCall.id \notin SnapshotsOf(drvCall.vol)
    /\ Cardinality(issued) >= 2 /\ Cardinality(thinDevs) = 1

C26_InitReactivatesVolumes ==
    [][(drvCall'.op = "Init" /\ ~drvCall'.err /\ ~poolUp /\ deviceCfg # <<>>)
       => /\ poolUp'
          /\ \A id \in DOMAIN volumes :
                /\ id \in DOMAIN dmDevs'
                /\ dmDevs'[id] = volumes[id].DevID]_vars

\* C27: the VolumeRef saved with every image is the set of the volumes with
\* a record whose Base is that image
C27_VolumeRefIsReferrers ==
    \A i \in DOMAIN imageCfg :
        imageCfg[i].VolumeRef = {v \in DOMAIN volumes : volumes[v].Base = i}

\* C27, second part: a DeactivateImage that returns without error found no
\* volume with a record whose Base is the image; one that finds such a
\* volume leaves the image file and the loopback device
C27_DeactivateOnlyUnreferred ==
    [][(drvCall'.op = "DeactivateImage" /\ drvCall'.id \in DOMAIN imageCfg)
       => IF \E v \in DOMAIN volumes : volumes[v].Base = drvCall'.id
          THEN drvCall'.err /\ UNCHANGED <<imageCfg, loopDevs>>
          ELSE TRUE]_vars

\* C28: a restore command whose target volume differs from the origin volume
\* in size or in base returns an error without any call on the store and
\* leaves every byte of the target device as it was
C28_MismatchedTargetRejected ==
    [][(/\ lastCall = Idle
        /\ lastCall'.op = "doSnapshotRestore"
        /\ targetVol # <<>>
        /\ lastCall'.snap \in OriginVolume[1].Snapshots
        /\ \/ targetVol[1].Size # OriginVolume[1].Size
           \/ targetVol[1].Base # OriginVolume[1].Base)
       => (/\ lastCall'.err
           /\ lastCall'.trace = <<>>
           /\ target' = target)]_vars

\* a stored snapshot is asked onto a larger target, and the command failed
C28_Witness ==
    /\ lastCall.op = "doSnapshotRestore"
    /\ lastCall.err
    /\ lastCall.snap \in (DOMAIN snapMaps) \cap (DOMAIN snapData)
    /\ \E b \in DOMAIN snapMaps[lastCall.snap].Blocks : TRUE
    /\ targetVol # <<>>
    /\ targetVol[1].Size # VolumeSize
    /\ targetVol[1].Base = ""
    /\ target = ZeroDevice

\* the snapshot is open: a reader opened it and has not closed it yet
IsOpen(id, vol) == \E r \in Readers : session[r] = <<[id |-> id, vol |-> vol]>>

StrictlySorted(blocks) ==
    \A i, j \in DOMAIN blocks : i < j => blocks[i].Offset < blocks[j].Offset

ChecksumAt(blocks, offset) ==
    LET i == CHOOSE k \in DOMAIN blocks : blocks[k].Offset = offset
    IN  blocks[i].BlockChecksum

LastBlocks == IF mergeIn.last = <<>> THEN <<>> ELSE mergeIn.last[1].Blocks

\* C30: for a delta and a last map sorted strictly by offset, the list
\* mergeSnapshotMap returns is sorted strictly by offset, so without a
\* duplicate offset, is no longer than the two lists together, has the
\* offsets of the two lists and no other, and at each offset has the delta's
\* checksum when the delta has the offset and the last map's otherwise
C30_MergeIsSortedUnion ==
    mergeOut # <<>> =>
        /\ mergeOut[1].ID = ToString(2)
        /\ StrictlySorted(mergeOut[1].Blocks)
        /\ Len(mergeOut[1].Blocks) <= Len(mergeIn.delta) + Len(LastBlocks)
        /\ OffsetsOf(mergeOut[1].Blocks) = OffsetsOf(mergeIn.delta) \cup OffsetsOf(LastBlocks)
        /\ \A i \in DOMAIN mergeOut[1].Blocks :
               mergeOut[1].Blocks[i].BlockChecksum =
                   IF mergeOut[1].Blocks[i].Offset \in OffsetsOf(mergeIn.delta)
                   THEN ChecksumAt(mergeIn.delta, mergeOut[1].Blocks[i].Offset)
                   ELSE ChecksumAt(LastBlocks, mergeOut[1].Blocks[i].Offset)

\* a merge of two lists that share an offset with different checksums and
\* each have an offset of their own, the last map's before the delta's
C30_Witness ==
    /\ mergeOut # <<>>
    /\ Len(mergeOut[1].Blocks) = MaxMergeBlocks
    /\ Len(mergeIn.delta) = 2 /\ Len(LastBlocks) = 2
    /\ LastBlocks[1].Offset < mergeIn.delta[1].Offset
    /\ LastBlocks[2].Offset = mergeIn.delta[1].Offset
    /\ LastBlocks[2].BlockChecksum # mergeIn.delta[1].BlockChecksum

\* the positions of a call in the trace of the last engine call
At(trace, call) == {i \in DOMAIN trace : trace[i] = call}

\* C31: in the calls one BackupSnapshot makes, every block write comes
\* before the write of the SnapshotMap and that write before the write of
\* volume.cfg; so whatever call the backup stopped at, when it wrote
\* volume.cfg the store holds the snapshot's map, and every block of that map
\* has its blob when the maps the backup found had theirs
MapsHaveBlobs ==
    \A id \in DOMAIN snapMaps : ChecksumsOf(snapMaps[id].Blocks) \subseteq DOMAIN blobs

FullMap(id) ==
    [ID |-> id,
     Blocks |-> SortedBlocks([o \in {i * DEFAULT_BLOCK_SIZE : i \in DOMAIN snapData[id]} |->
                                GetChecksum(snapData[id][o \div DEFAULT_BLOCK_SIZE])])]

\* volume.cfg names a last snapshot that is not the one backed up and that
\* the storage driver still has
HasParent(id) ==
    /\ volCfg[1].LastSnapshotID \notin {"", id}
    /\ volCfg[1].LastSnapshotID \in DOMAIN snapData

\* C32: a BackupSnapshot loads the map of the volume's last snapshot only when
\* that id is not empty, is not the snapshot backed up and names a snapshot the
\* storage driver has; in every other case a backup that succeeds stores the
\* map of a full backup, every provisioned block of the snapshot and nothing
\* of an earlier map; with a parent the stored map covers the parent's offsets
C32_ParentOnlyWhenLocal ==
    [][(lastCall = Idle /\ lastCall'.op = "BackupSnapshot" /\ volCfg # <<>>)
       => /\ "loadLast" \in Range(lastCall'.trace) => HasParent(lastCall'.snap)
          /\ (~lastCall'.err /\ ~HasParent(lastCall'.snap))
                 => snapMaps'[lastCall'.snap] = FullMap(lastCall'.snap)
          /\ (~lastCall'.err /\ HasParent(lastCall'.snap))
                 => /\ "loadLast" \in Range(lastCall'.trace)
                    /\ OffsetsOf(snapMaps[volCfg[1].LastSnapshotID].Blocks)
                          \subseteq OffsetsOf(snapMaps'[lastCall'.snap].Blocks)]_vars

\* a full backup of a snapshot with blocks, made while the store holds the map
\* of another snapshot that the storage driver no longer has
C32_Witness ==
    /\ lastCall.op = "BackupSnapshot" /\ ~lastCall.err
    /\ "loadLast" \notin Range(lastCall.trace)
    /\ lastCall.snap \in DOMAIN snapData
    /\ snapMaps[lastCall.snap] = FullMap(lastCall.snap)
    /\ snapMaps[lastCall.snap].Blocks # <<>>
    /\ \E other \in (DOMAIN snapMaps) \ {lastCall.snap} :
           /\ other \notin DOMAIN snapData
           /\ snapMaps[other].Blocks # <<>>

\* C33: a BackupSnapshot of a snapshot whose SnapshotMap an earlier run left
\* in the store, volume.cfg not naming it, with no driver call failing,
\* writes the map anew and returns without error, volume.cfg naming the
\* snapshot
C33_RerunOverwritesMap ==
    [][(/\ lastCall = Idle
        /\ lastCall'.op = "BackupSnapshot"
        /\ lastCall'.failAt = 0
        /\ volCfg # <<>>
        /\ lastCall'.snap \in (DOMAIN snapMaps) \cap (DOMAIN snapData)
        /\ volCfg[1].LastSnapshotID # lastCall'.snap)
       => /\ ~lastCall'.err
          /\ "saveMap" \in Range(lastCall'.trace)
          /\ lastCall'.snap \in DOMAIN snapMaps'
          /\ volCfg'[1].LastSnapshotID = lastCall'.snap]_vars

\* C34: in every state of the store, whichever calls failed before, the last
\* snapshot volume.cfg names is none or a snapshot whose SnapshotMap is in the
\* store
C34_LastSnapshotHasMap ==
    volCfg # <<>> =>
        \/ volCfg[1].LastSnapshotID = ""
        \/ volCfg[1].LastSnapshotID \in DOMAIN snapMaps

\* C35: a BackupSnapshot that returns an error leaves the SnapshotMaps of
\* the store and the last snapshot of volume.cfg as they were before the
\* call; only block blobs may have been added
C35_FailedBackupKeepsMaps ==
    [][(lastCall = Idle /\ lastCall'.op = "BackupSnapshot" /\ lastCall'.err)
       => /\ snapMaps' = snapMaps
          /\ volCfg' = volCfg
          /\ \A c \in DOMAIN blobs : c \in DOMAIN blobs' /\ blobs'[c] = blobs[c]]_vars

\* the kernel device of a volume is in the mode of its record: plain without
\* a base image, on the image's device with one
ModeOfRecord(vols, dm, origins, id) ==
    IF vols[id].Base = "" THEN id \notin DOMAIN origins
    ELSE id \in DOMAIN origins /\ origins[id] = vols[id].Base

\* C36: after an Init that created the pool anew, every volume with a record
\* whose device is active has it in the mode CreateVolume gave it: plain for a
\* volume without a base image, with the image's device as external origin
\* for a volume with one
C36_ReactivatedInCreatedMode ==
    [][(drvCall'.op = "Init" /\ ~drvCall'.err /\ ~poolUp /\ poolUp')
       => \A id \in (DOMAIN volumes') \cap (DOMAIN dmDevs') :
              ModeOfRecord(volumes', dmDevs', dmOrigin', id)]_vars

\* the handler is in the part of its body that works on the indexes
AtIndex(h) == handlers[h].pc = "process" /\ handlers[h].kind \in IndexWriters \cup IndexReaders

\* C37: a handler at work on the indexes holds GlobalLock, for writing when
\* it adds or deletes and for reading or writing when it reads; so no handler
\* reads an index while another adds to it or deletes from it
C37_IndexesUnderGlobalLock ==
    /\ \A h \in Handlers :
           AtIndex(h) =>
               IF handlers[h].kind \in IndexWriters THEN GlobalLock.writer = <<h>>
               ELSE GlobalLock.writer = <<h>> \/ h \in GlobalLock.readers
    /\ \A h1, h2 \in Handlers :
           (h1 # h2 /\ AtIndex(h1) /\ AtIndex(h2))
           => {handlers[h1].kind, handlers[h2].kind} \cap IndexWriters = {}

\* C38: a processVolumeCreate that returns an error after the driver's
\* CreateVolume returned without one leaves no volume of that uuid with the
\* driver
C38_FailedCreateLeavesNoVolume ==
    [][(drvCall'.op = "VolumeCreate" /\ drvCall'.err /\ drvCall'.created)
       => drvCall'.id \notin DOMAIN volumes']_vars

\* the poll last seen shows exactly the target number of services, all in the
\* target state
SeenReady ==
    /\ ~waitCall.seen.err
    /\ Len(waitCall.seen.services) = waitCall.count
    /\ \A k \in DOMAIN waitCall.seen.services :
           waitCall.seen.services[k] = waitCall.state

WaitSafe ==
    /\ waitCall.polls <= RETRY_MAX
    /\ waitCall.result = "ok" => waitCall.polls >= 1 /\ SeenReady
    /\ waitCall.result = "error" => waitCall.seen.err
    /\ waitCall.result = "timeout" => waitCall.polls = RETRY_MAX /\ ~SeenReady
    /\ waitCall.pc = "done" => waitCall.result \in {"ok", "error", "timeout"}

WaitSteps ==
    /\ (waitCall.pc = "loop" /\ waitCall'.polls = waitCall.polls + 1)
          => /\ ~SeenReady \/ waitCall.polls = 0
             /\ waitCall'.seen.err => waitCall'.pc = "done" /\ waitCall'.result = "error"
    /\ (waitCall.pc = "loop" /\ waitCall.polls >= 1 /\ SeenReady)
          => waitCall'.pc = "done" /\ waitCall'.result = "ok"
                /\ waitCall'.polls = waitCall.polls

\* C39: a call of waitForServices ends, after at most RETRY_MAX polls: with
\* success right after a poll that shows the target number of services all
\* in the target state and never without one, with the poll's error right
\* after a failed poll, with a timeout after RETRY_MAX polls without success
C39_WaitTerminates ==
    /\ []WaitSafe
    /\ [][WaitSteps]_vars
    /\ (waitCall.pc = "loop") ~> (waitCall.pc = "done")

C39_Witness ==
    /\ waitCall.pc = "done" /\ waitCall.result = "timeout"
    /\ waitCall.polls = RETRY_MAX
    /\ waitCall.count = 2 /\ Len(waitCall.seen.services) = 1
====
